---- MODULE Spec2Model ----
(***************************************************************************)
(* Verification model of cargo-buckal: the node fingerprint, the snapshot  *)
(* diff, the regenerating commands that apply a change set, and the        *)
(* dependency attachment of rule emission.                                 *)
(*                                                                         *)
(* The module holds several specifications over one set of variables:      *)
(*   SpecFp    fingerprint of two node records (resolve.rs)                *)
(*   SpecDiff  diff of a current graph against a previous snapshot         *)
(*   Spec      the regenerating commands (migrate, add) and apply          *)
(*   SpecDeps  set_deps / insert_dep on one rule (buckify/deps.rs)         *)
(*   SpecGen   regeneration of one node's BUCK file: emit, merge, write    *)
(*   SpecPatch the text patchers of buckify/cross.rs and windows.rs        *)
(*   SpecCfg   initialisation of the cfg cache (platform.rs)               *)
(*   SpecPlatform  oses_from_platform with failing and panicking queries   *)
(*   SpecRegen regeneration of a node whose edges change between runs      *)
(* Each specification keeps the variables of the others at their idle      *)
(* value.                                                                  *)
(***************************************************************************)
EXTENDS Integers, Sequences, FiniteSets, TLC

VARIABLES
    \* SpecFp: two node records and their fingerprints
    nodeA, nodeB, fpA, fpB,
    \* SpecDiff: a previous graph, a current graph and the computed change set
    g1, g2, diffDone, diffOut,
    \* Spec: the world (resolved graph, snapshot file, BUCK files) ...
    cargo, snapFile, buck, edits,
    \* ... the nodes the last aborted run left without regenerating them
    \* (history) ...
    unfinished,
    \* ... and one run of a regenerating command
    cmd, pc, ctx, last_cache, new_cache, changes, idx, loadFailed,
    metadataAtStart, log,
    \* SpecDeps: one rule under set_deps
    emit_kind, emit_alias, emit_rule, emit_dep, emit_locals, emit_call,
    emit_rounds, emit_status, emit_diag,
    \* SpecGen: regeneration of one node's BUCK file (emit, merge, write)
    gen_node, gen_fields, gen_no_merge, gen_file, gen_prev, gen_rules,
    gen_noop, gen_pc, gen_added,
    \* SpecPatch: the text patchers applied to a BUCK text
    patch_text, patch_prev, patch_last, patch_count,
    \* SpecCfg: the per-triple cfg cache and its concurrent first callers
    cfg_installed, cfg_once, cfg_results, cfg_queries, CFG_CACHE, cfg_callers,
    \* SpecDag: construction of the dependency DAG from resolved metadata
    dag_input, dag_nodes, dag_edges, dag_done, dag_pc,
    \* SpecRender, SpecOrder: a rule list, two copies of a rule's collection
    \* fields under construction, and what was rendered
    ren_rules, ren_deps, ren_env, ren_out,
    \* SpecLabel: the alias file and one rule of a workspace member under
    \* set_deps
    lab_inherit, lab_is_root, lab_deps, lab_others, lab_aliases, lab_rule,
    lab_idx, lab_pc

fpVars == <<nodeA, nodeB, fpA, fpB>>
diffVars == <<g1, g2, diffDone, diffOut>>
worldVars == <<cargo, snapFile, buck, edits, unfinished>>
runVars == <<cmd, pc, ctx, last_cache, new_cache, changes, idx, loadFailed,
             metadataAtStart, log>>
cmdVars == <<worldVars, runVars>>
depVars == <<emit_kind, emit_alias, emit_rule, emit_dep, emit_locals, emit_call,
             emit_rounds, emit_status, emit_diag>>
genVars == <<gen_node, gen_fields, gen_no_merge, gen_file, gen_prev, gen_rules,
             gen_noop, gen_pc, gen_added>>
patchVars == <<patch_text, patch_prev, patch_last, patch_count>>
cfgVars == <<cfg_installed, cfg_once, cfg_results, cfg_queries, CFG_CACHE,
             cfg_callers>>
dagVars == <<dag_input, dag_nodes, dag_edges, dag_done, dag_pc>>
renVars == <<ren_rules, ren_deps, ren_env, ren_out>>
labVars == <<lab_inherit, lab_is_root, lab_deps, lab_others, lab_aliases,
             lab_rule, lab_idx, lab_pc>>
textVars == <<genVars, patchVars, cfgVars, dagVars, renVars, labVars>>
vars == <<fpVars, diffVars, cmdVars, depVars, textVars>>

None == "none"

(***************************************************************************)
(* Bounds                                                                  *)
(***************************************************************************)
MaxFeatures == 2
MaxDepIds == 2
\* manifest edits and snapshot deletions between and inside the runs
MaxEdits == 3

(***************************************************************************)
(* Sequences                                                               *)
(***************************************************************************)
SeqsUpTo(S, n) == UNION {[1..k -> S] : k \in 0..n}

Range(s) == {s[i] : i \in 1..Len(s)}

NoDup(s) == \A i, j \in 1..Len(s) : i # j => s[i] # s[j]

RECURSIVE SetToSeq(_)
SetToSeq(S) ==
    IF S = {} THEN <<>>
    ELSE LET x == CHOOSE y \in S : TRUE IN <<x>> \o SetToSeq(S \ {x})

(***************************************************************************)
(* resolve.rs: NodeKind, BuckalNode, fingerprint                           *)
(***************************************************************************)
ThirdParty == [tag |-> "ThirdParty", relative_path |-> ""]

FirstParty(p) == [tag |-> "FirstParty", relative_path |-> p]

\* bincode (standard configuration) writes a string or a Vec as its length
\* followed by its items, and an enum as its variant index followed by the
\* variant's fields. A string is one token here; lengths and variant
\* indices are tokens of their own.
LenTok(n) == "#" \o ToString(n)

EncodeVec(v) == <<LenTok(Len(v))>> \o v

EncodeKind(k) ==
    IF k.tag = "FirstParty" THEN <<"variant0", k.relative_path>>
    ELSE <<"variant1">>

\* Encode with the dependency identifiers left out of the encoding.
EncodeNoDeps(n) ==
    <<n.package_id, n.name, n.version>>
        \o EncodeVec(n.features)
        \o EncodeKind(n.kind)
        \o <<n.edition>>

\* encode_to_vec(self): the fields of BuckalNode in declaration order.
Encode(n) ==
    <<n.package_id, n.name, n.version>>
        \o EncodeVec(n.features)
        \o EncodeKind(n.kind)
        \o <<n.edition>>
        \o EncodeVec(n.dep_ids)

\* blake3 is taken to be collision free: the 32-byte digest is represented
\* by the encoding it was computed from.
Blake3(encoded) == [digest |-> encoded]

fingerprint(n) == Blake3(Encode(n))

\* The value of a fingerprint variable before it is computed.
NoFp == [digest |-> <<>>]

(***************************************************************************)
(* The package universe of the graph, diff and command specifications      *)
(***************************************************************************)
RootId == "path+file:///ws#app@0.1.0"
RootId2 == "path+file:///ws#app@0.2.0"
SerdeId1 == "registry+idx#serde@1.0.0"
SerdeId2 == "registry+idx#serde@1.1.0"
LibcId == "registry+idx#libc@0.2.0"

RootIds == {RootId, RootId2}
ThirdPartyIds == {SerdeId1, SerdeId2, LibcId}
PkgIds == RootIds \cup ThirdPartyIds

\* The name and version parts of a package id, as the regular expression of
\* apply captures them (groups 3 and 4).
IdName(id) ==
    CASE id \in RootIds -> "app"
      [] id \in {SerdeId1, SerdeId2} -> "serde"
      [] OTHER -> "libc"

IdVersion(id) ==
    CASE id = RootId -> "0.1.0"
      [] id = RootId2 -> "0.2.0"
      [] id = SerdeId1 -> "1.0.0"
      [] id = SerdeId2 -> "1.1.0"
      [] OTHER -> "0.2.0"

\* package.source.is_none(): a workspace member
IsFirstParty(id) == id \in RootIds

\* from_metadata: the node record of one package of the resolved graph.
\* The root sits at the workspace root, so its relative path is empty.
BuckalNode(id, features, dep_ids) ==
    [package_id |-> id,
     name |-> IdName(id),
     version |-> IdVersion(id),
     features |-> features,
     kind |-> IF IsFirstParty(id) THEN FirstParty("") ELSE ThirdParty,
     edition |-> "2021",
     dep_ids |-> dep_ids]

EmptyGraph == [id \in {} |-> None]

\* serde 1.0.0 comes with or without its "std" feature
FeatureChoices ==
    {f \in [ThirdPartyIds -> {<<>>, <<"std">>}] :
        f[SerdeId2] = <<>> /\ f[LibcId] = <<>>}

\* A resolved graph: the root in one of its versions, depending on the
\* third-party packages that are present (at most one version of serde).
\* A graph is a function from the package ids present to their records.
GraphOf(root, tp, feats) ==
    [id \in {root} \cup tp |->
        IF id = root THEN BuckalNode(id, <<>>, SetToSeq(tp))
        ELSE BuckalNode(id, feats[id], <<>>)]

ThirdPartySets == {tp \in SUBSET ThirdPartyIds : ~({SerdeId1, SerdeId2} \subseteq tp)}

Graphs ==
    {GraphOf(root, tp, feats) :
        root \in RootIds, tp \in ThirdPartySets,
        feats \in FeatureChoices}

(***************************************************************************)
(* cache.rs: BuckalCache, BuckalChange (change detection)                  *)
(***************************************************************************)
\* BuckalCache::new_empty
new_empty == [id \in {} |-> NoFp]

\* BuckalCache::from_resolve / BuckalCache::new: identifier -> fingerprint
from_resolve(resolve) == [id \in DOMAIN resolve |-> fingerprint(resolve[id])]

Change(id, t) == [id |-> id, change_type |-> t]

RECURSIVE DiffCurrent(_, _, _)
DiffCurrent(ids, self, other) ==
    IF ids = <<>> THEN <<>>
    ELSE LET id == Head(ids)
             rest == DiffCurrent(Tail(ids), self, other)
         IN IF id \notin DOMAIN other THEN <<Change(id, "Added")>> \o rest
            ELSE IF other[id] # self[id] THEN <<Change(id, "Changed")>> \o rest
            ELSE rest

RECURSIVE DiffPrevious(_, _)
DiffPrevious(ids, self) ==
    IF ids = <<>> THEN <<>>
    ELSE LET id == Head(ids)
             rest == DiffPrevious(Tail(ids), self)
         IN IF id \notin DOMAIN self THEN <<Change(id, "Removed")>> \o rest
            ELSE rest

\* new_cache.diff(&last_cache): the entries for the nodes of the current
\* cache, then the entries for the identifiers only the previous one has.
diff(self, other) ==
    DiffCurrent(SetToSeq(DOMAIN self), self, other)
        \o DiffPrevious(SetToSeq(DOMAIN other), self)

\* The two caches passed the wrong way round.
ComputeChangesSwapped(resolve, last) ==
    diff(last, from_resolve(resolve))

\* add.rs, migrate.rs: new_cache = from_resolve(resolve);
\* changes = new_cache.diff(&last_cache)
ComputeChanges(resolve, last) ==
    diff(from_resolve(resolve), last)

(***************************************************************************)
(* utils.rs, buckify/actions.rs: the snapshot file, flush_root, apply      *)
(***************************************************************************)
\* ctx.root: the root package of the resolved graph
RootOf(g) == CHOOSE id \in DOMAIN g : id \in RootIds

\* id.repr.starts_with("path+file://{workspace_root}")
StartsWithWorkspaceRoot(id) == id \in RootIds

\* The directory of a package's BUCK file: the manifest directory of a
\* first-party package, the vendor directory (get_vendor_dir) otherwise.
Dir(id) ==
    IF IsFirstParty(id) THEN "ws"
    ELSE "third-party/rust/crates/" \o IdName(id) \o "/" \o IdVersion(id)

Dirs == {Dir(id) : id \in PkgIds}

\* A BUCK file is represented by the fingerprint of the node it was
\* generated from; NoFp stands for no file.
NoBuckFiles == [d \in Dirs |-> NoFp]

NoSnapshot == [present |-> FALSE, fingerprints |-> new_empty]

\* get_last_cache with an empty previous state when the load fails.
get_last_cache_empty(snap, metadata) ==
    IF snap.present THEN snap.fingerprints ELSE new_empty

\* get_last_cache: the loaded snapshot, or a snapshot of the graph as cargo
\* reports it now.
get_last_cache(snap, metadata) ==
    IF snap.present THEN snap.fingerprints ELSE from_resolve(metadata)

\* migrate.rs: last_cache when the load fails is BuckalCache::new_empty.
migrate_last_cache(snap) ==
    IF snap.present THEN snap.fingerprints ELSE new_empty

\* flush_root: log "Flushing", write the root's BUCK file.
flush_root(c, b, l) ==
    [buck |-> [b EXCEPT ![Dir(RootOf(c))] = fingerprint(c[RootOf(c)])],
     log |-> l \cup {[action |-> "FlushRoot", id |-> RootOf(c)]}]

\* One iteration of apply with no skip of the root package.
ApplyEntryNoRootSkip(entry, c, b, l) ==
    IF entry.change_type \in {"Added", "Changed"}
    THEN IF entry.id \in DOMAIN c
         THEN [buck |-> [b EXCEPT ![Dir(entry.id)] = fingerprint(c[entry.id])],
               log |-> l \cup {[action |-> (IF entry.change_type = "Added"
                                            THEN "Adding" ELSE "Flushing"),
                                id |-> entry.id]}]
         ELSE [buck |-> b, log |-> l]
    ELSE [buck |-> [b EXCEPT ![Dir(entry.id)] = NoFp],
          log |-> l \cup {[action |-> "Removing", id |-> entry.id]}]

\* One iteration of the loop of BuckalChange::apply over (id, change_type).
ApplyEntry(entry, c, b, l) ==
    IF entry.change_type \in {"Added", "Changed"}
    THEN IF entry.id = RootOf(c) THEN [buck |-> b, log |-> l]
         ELSE IF entry.id \in DOMAIN c
         THEN [buck |-> [b EXCEPT ![Dir(entry.id)] = fingerprint(c[entry.id])],
               log |-> l \cup {[action |-> (IF entry.change_type = "Added"
                                            THEN "Adding" ELSE "Flushing"),
                                id |-> entry.id]}]
         ELSE [buck |-> b, log |-> l]
    ELSE IF StartsWithWorkspaceRoot(entry.id) THEN [buck |-> b, log |-> l]
         ELSE [buck |-> [b EXCEPT ![Dir(entry.id)] = NoFp],
               log |-> l \cup {[action |-> "Removing", id |-> entry.id]}]

(***************************************************************************)
(* platform.rs: Os, SUPPORTED_TARGETS, the cfg cache, oses_from_platform   *)
(***************************************************************************)
\* enum Os in declaration order, which is the iteration order of a Set<Os>
OsOrder == <<"Windows", "Macos", "Linux">>

key(os) ==
    CASE os = "Windows" -> "windows"
      [] os = "Macos" -> "macos"
      [] os = "Linux" -> "linux"

SUPPORTED_TARGETS ==
    << <<"Macos", "aarch64-apple-darwin">>,
       <<"Windows", "aarch64-pc-windows-msvc">>,
       <<"Windows", "x86_64-pc-windows-msvc">>,
       <<"Windows", "x86_64-pc-windows-gnu">>,
       <<"Windows", "i686-pc-windows-msvc">>,
       <<"Linux", "aarch64-unknown-linux-gnu">>,
       <<"Linux", "x86_64-unknown-linux-gnu">>,
       <<"Linux", "i686-unknown-linux-gnu">> >>

\* The triples that have an entry in the cfg cache: rustc, or the built-in
\* fallback table, answers for every supported triple.
cfg_cache == {SUPPORTED_TARGETS[i][2] : i \in 1..Len(SUPPORTED_TARGETS)}

\* A cargo Platform: its text, the triples Platform::matches accepts, and
\* whether it is written purely in target-identity attributes.
Platform(repr, matches, target_only) ==
    [repr |-> repr, matches |-> matches, target_only |-> target_only]

\* DepKindInfo.target = None
NoTarget == Platform("", {}, FALSE)

CfgUnix ==
    Platform("cfg(unix)",
             {"aarch64-apple-darwin", "aarch64-unknown-linux-gnu",
              "x86_64-unknown-linux-gnu", "i686-unknown-linux-gnu"}, TRUE)

CfgWindows ==
    Platform("cfg(windows)",
             {"aarch64-pc-windows-msvc", "x86_64-pc-windows-msvc",
              "x86_64-pc-windows-gnu", "i686-pc-windows-msvc"}, TRUE)

CfgWasm == Platform("cfg(target_arch = \"wasm32\")", {}, TRUE)

CfgMiri == Platform("cfg(miri)", {}, FALSE)

Platforms == {CfgUnix, CfgWindows, CfgWasm, CfgMiri}

oses_from_platform(platform) ==
    {SUPPORTED_TARGETS[i][1] :
        i \in {j \in 1..Len(SUPPORTED_TARGETS) :
                  /\ SUPPORTED_TARGETS[j][2] \in cfg_cache
                  /\ SUPPORTED_TARGETS[j][2] \in platform.matches}}

platform_is_target_only(platform) == platform.target_only

(***************************************************************************)
(* buckify/deps.rs: dep_kind_matches, resolve_dep_label, insert_dep,       *)
(* set_deps                                                                *)
(***************************************************************************)
CargoTargetKinds == {"Lib", "Bin", "CustomBuild", "Test"}

DependencyKinds == {"Normal", "Development", "Build"}

\* the matching of the superseded revision: a test rule took dev-deps only
dep_kind_matches_dev_only(target_kind, dep_kind) ==
    CASE target_kind = "CustomBuild" -> dep_kind = "Build"
      [] target_kind = "Test" -> dep_kind = "Development"
      [] OTHER -> dep_kind = "Normal"

dep_kind_matches(target_kind, dep_kind) ==
    CASE target_kind = "CustomBuild" -> dep_kind = "Build"
      [] target_kind = "Test" -> dep_kind = "Development" \/ dep_kind = "Normal"
      [] OTHER -> dep_kind = "Normal"

\* The packages an edge of the rule's node may point to.
UtilId == "path+file:///ws/crates/my-util#0.1.0"
NoLibId == "path+file:///ws/crates/no-lib#0.1.0"
TwoLibId == "path+file:///ws/crates/two-lib#0.1.0"
GhostId == "registry+idx#ghost@0.0.1"

Package(name, version, source, relative_path, lib_targets, bin_targets) ==
    [name |-> name, version |-> version, source |-> source,
     relative_path |-> relative_path, lib_targets |-> lib_targets,
     bin_targets |-> bin_targets]

\* The first-party packages of a workspace on a Windows host, and two
\* versions of a third-party package that one graph can hold together.
CoreId == "path+file:///ws/crates/my-core#0.1.0"
WinUtilId == "path+file:///C:/ws/crates/win-util#0.1.0"
RandId08 == "registry+idx#rand@0.8.5"
RandId09 == "registry+idx#rand@0.9.0"

\* std::path::MAIN_SEPARATOR of the host the package id was reported on
Separator(id) == IF id = WinUtilId THEN "\\" ELSE "/"

\* manifest_dir.strip_prefix(buck2_root): the components of the path
ManifestDir(id) ==
    CASE id = UtilId -> <<"crates", "my-util">>
      [] id = NoLibId -> <<"crates", "no-lib">>
      [] id = TwoLibId -> <<"crates", "two-lib">>
      [] id = CoreId -> <<"crates", "my-core">>
      [] id = WinUtilId -> <<"crates", "win-util">>
      [] OTHER -> <<>>

RECURSIVE JoinPath(_, _)
JoinPath(components, sep) ==
    IF components = <<>> THEN ""
    ELSE IF Len(components) = 1 THEN components[1]
    ELSE components[1] \o sep \o JoinPath(Tail(components), sep)

\* Path::to_string_lossy: the components joined by the host's separator
to_string_lossy(id) == JoinPath(ManifestDir(id), Separator(id))

\* relative_path of a first-party package is to_string_lossy of its id,
\* written out
packages_map ==
    (SerdeId1 :> Package("serde", "1.0.0", "registry", "", <<"serde">>, <<>>))
    @@ (SerdeId2 :> Package("serde", "1.1.0", "registry", "", <<"serde">>, <<>>))
    @@ (RandId08 :> Package("rand", "0.8.5", "registry", "", <<"rand">>, <<>>))
    @@ (RandId09 :> Package("rand", "0.9.0", "registry", "", <<"rand">>, <<>>))
    @@ (UtilId :> Package("my-util", "0.1.0", None, "crates/my-util",
                          <<"my_util">>, <<"my_util">>))
    @@ (NoLibId :> Package("no-lib", "0.1.0", None, "crates/no-lib",
                           <<>>, <<"no_lib">>))
    @@ (TwoLibId :> Package("two-lib", "0.1.0", None, "crates/two-lib",
                            <<"two_lib", "two_lib_c">>, <<>>))
    @@ (CoreId :> Package("my-core", "0.1.0", None, "crates/my-core",
                          <<"my_core">>, <<"tool">>))
    @@ (WinUtilId :> Package("win-util", "0.1.0", None, "crates\\win-util",
                             <<"win_util">>, <<"win_util">>))

\* str::replace("-", "_") on the package names of packages_map
ReplaceHyphens(name) ==
    CASE name = "my-util" -> "my_util"
      [] name = "no-lib" -> "no_lib"
      [] name = "two-lib" -> "two_lib"
      [] name = "my-core" -> "my_core"
      [] name = "win-util" -> "win_util"
      [] OTHER -> name

RUST_CRATES_ROOT == "third-party/rust/crates"

Ok(v) == [ok |-> TRUE, value |-> v]
Err(e) == [ok |-> FALSE, value |-> e]

resolve_first_party_label(dep_package) ==
    IF Len(dep_package.lib_targets) # 1
    THEN Err("expected exactly one library target")
    ELSE LET lib == dep_package.lib_targets[1]
             buckal_name ==
                 IF \E i \in 1..Len(dep_package.bin_targets) :
                        dep_package.bin_targets[i] = lib
                 THEN "lib" \o lib
                 ELSE lib
         IN Ok("//" \o dep_package.relative_path \o ":" \o buckal_name)

\* the alias half of resolve_dep_label; "" is Option::None
resolve_dep_alias(dep, dep_package) ==
    IF dep.name # ReplaceHyphens(dep_package.name) THEN dep.name ELSE ""

resolve_dep_label(dep, dep_package, use_alias) ==
    LET alias == resolve_dep_alias(dep, dep_package)
    IN IF dep_package.source = None
       THEN LET label == resolve_first_party_label(dep_package)
            IN IF label.ok
               THEN Ok([label |-> label.value, alias |-> alias])
               ELSE Err("failed to resolve first-party label")
       ELSE Ok([label |->
                    IF use_alias
                    THEN "//third-party/rust:" \o dep_package.name
                    ELSE "//" \o RUST_CRATES_ROOT \o "/" \o dep_package.name
                         \o "/" \o dep_package.version \o ":" \o dep_package.name,
                alias |-> alias])

\* BTreeMap
EmptyMap == [k \in {} |-> ""]

MapPut(m, k, v) == [x \in DOMAIN m \cup {k} |-> IF x = k THEN v ELSE m[x]]

MapGetOr(m, k, default) == IF k \in DOMAIN m THEN m[k] ELSE default

\* the four dependency attributes of a rule (buck.rs, trait RustRule)
EmptyRule ==
    [deps |-> {}, named_deps |-> EmptyMap, os_deps |-> EmptyMap,
     os_named_deps |-> EmptyMap]

Diagnostic(level, what, dep_name, package_name) ==
    [level |-> level, what |-> what, dep |-> dep_name, package |-> package_name]

\* insert_dep, platform-scoped branch, with a conflicting label overwriting
\* the recorded one instead of failing
RECURSIVE InsertPlatformsOverwrite(_, _, _, _)
InsertPlatformsOverwrite(rust_rule, target, alias, oses) ==
    IF oses = <<>>
    THEN [rule |-> rust_rule, ok |-> TRUE]
    ELSE LET os_key == key(Head(oses))
         IN IF alias # ""
            THEN LET entries == MapGetOr(rust_rule.os_named_deps, alias, EmptyMap)
                 IN InsertPlatformsOverwrite(
                        [rust_rule EXCEPT !.os_named_deps =
                            MapPut(@, alias, MapPut(entries, os_key, target))],
                        target, alias, Tail(oses))
            ELSE InsertPlatformsOverwrite(
                     [rust_rule EXCEPT !.os_deps =
                         MapPut(@, os_key, MapGetOr(@, os_key, {}) \cup {target})],
                     target, alias, Tail(oses))

\* insert_dep, platform-scoped branch: the loop `for os in platforms`.  A
\* conflict returns the error at once; what earlier rounds inserted stays.
RECURSIVE InsertPlatforms(_, _, _, _)
InsertPlatforms(rust_rule, target, alias, oses) ==
    IF oses = <<>>
    THEN [rule |-> rust_rule, ok |-> TRUE]
    ELSE LET os_key == key(Head(oses))
         IN IF alias # ""
            THEN LET entries == MapGetOr(rust_rule.os_named_deps, alias, EmptyMap)
                     with_entry == [rust_rule EXCEPT !.os_named_deps =
                                       MapPut(@, alias, entries)]
                 IN IF os_key \in DOMAIN entries
                    THEN IF entries[os_key] # target
                         THEN [rule |-> with_entry, ok |-> FALSE]
                         ELSE InsertPlatforms(with_entry, target, alias, Tail(oses))
                    ELSE InsertPlatforms(
                             [rust_rule EXCEPT !.os_named_deps =
                                 MapPut(@, alias, MapPut(entries, os_key, target))],
                             target, alias, Tail(oses))
            ELSE InsertPlatforms(
                     [rust_rule EXCEPT !.os_deps =
                         MapPut(@, os_key, MapGetOr(@, os_key, {}) \cup {target})],
                     target, alias, Tail(oses))

\* insert_dep, unconditional branch, with the last label winning silently
InsertUnconditionalLastWins(rust_rule, target, alias) ==
    IF alias # ""
    THEN [rule |-> [rust_rule EXCEPT !.named_deps = MapPut(@, alias, target)],
          warned |-> FALSE]
    ELSE [rule |-> [rust_rule EXCEPT !.deps = @ \cup {target}],
          warned |-> FALSE]

\* insert_dep, unconditional branch
InsertUnconditional(rust_rule, target, alias) ==
    IF alias # ""
    THEN IF alias \notin DOMAIN rust_rule.named_deps
         THEN [rule |-> [rust_rule EXCEPT !.named_deps = MapPut(@, alias, target)],
               warned |-> FALSE]
         ELSE [rule |-> rust_rule,
               warned |-> rust_rule.named_deps[alias] # target]
    ELSE [rule |-> [rust_rule EXCEPT !.deps = @ \cup {target}],
          warned |-> FALSE]

\* insert_dep(rust_rule, target, alias, platforms): conditional says whether
\* platforms is Some; the result carries the rule, Ok/Err and the diagnostics
insert_dep(rust_rule, target, alias, conditional, platforms, dep_name, package_name) ==
    IF conditional
    THEN LET r == InsertPlatforms(rust_rule, target, alias,
                                  SelectSeq(OsOrder, LAMBDA os : os \in platforms))
         IN [rule |-> r.rule, ok |-> r.ok,
             diag |-> IF r.ok THEN <<>>
                      ELSE <<Diagnostic("error", "os_named_deps conflict",
                                        dep_name, package_name)>>]
    ELSE LET r == InsertUnconditional(rust_rule, target, alias)
         IN [rule |-> r.rule, ok |-> TRUE,
             diag |-> IF r.warned
                      THEN <<Diagnostic("warn", "named_deps conflict",
                                        dep_name, package_name)>>
                      ELSE <<>>]

\* the locals of one round of the loop of set_deps
Locals(unconditional, platforms, has_unsupported_platform) ==
    [unconditional |-> unconditional, platforms |-> platforms,
     has_unsupported_platform |-> has_unsupported_platform]

\* the inner loop with every predicate that resolves to no OS promoting
\* the edge, target-identity or not
RECURSIVE ClassifyAlwaysPromote(_, _)
ClassifyAlwaysPromote(dks, acc) ==
    IF dks = <<>> THEN acc
    ELSE LET dk == Head(dks)
         IN IF dk.target = NoTarget
            THEN ClassifyAlwaysPromote(Tail(dks), [acc EXCEPT !.unconditional = TRUE])
            ELSE LET oses == oses_from_platform(dk.target)
                 IN IF oses = {}
                    THEN ClassifyAlwaysPromote(Tail(dks),
                                               [acc EXCEPT !.unconditional = TRUE])
                    ELSE ClassifyAlwaysPromote(Tail(dks),
                                               [acc EXCEPT !.platforms = @ \cup oses])

\* the inner loop with the OS set of the last predicate replacing the set
\* collected so far
RECURSIVE ClassifyLastPlatforms(_, _)
ClassifyLastPlatforms(dks, acc) ==
    IF dks = <<>> THEN acc
    ELSE LET dk == Head(dks)
         IN IF dk.target = NoTarget
            THEN ClassifyLastPlatforms(Tail(dks), [acc EXCEPT !.unconditional = TRUE])
            ELSE LET oses == oses_from_platform(dk.target)
                 IN IF oses = {}
                    THEN IF platform_is_target_only(dk.target)
                         THEN ClassifyLastPlatforms(Tail(dks),
                                  [acc EXCEPT !.has_unsupported_platform = TRUE])
                         ELSE ClassifyLastPlatforms(Tail(dks),
                                  [acc EXCEPT !.unconditional = TRUE])
                    ELSE ClassifyLastPlatforms(Tail(dks),
                                               [acc EXCEPT !.platforms = oses])

\* set_deps, the inner loop over the applicable dep_kinds of one edge
RECURSIVE ClassifyEntries(_, _)
ClassifyEntries(dks, acc) ==
    IF dks = <<>> THEN acc
    ELSE LET dk == Head(dks)
         IN IF dk.target = NoTarget
            THEN ClassifyEntries(Tail(dks), [acc EXCEPT !.unconditional = TRUE])
            ELSE LET oses == oses_from_platform(dk.target)
                 IN IF oses = {}
                    THEN IF platform_is_target_only(dk.target)
                         THEN ClassifyEntries(Tail(dks),
                                  [acc EXCEPT !.has_unsupported_platform = TRUE])
                         ELSE ClassifyEntries(Tail(dks),
                                  [acc EXCEPT !.unconditional = TRUE])
                    ELSE ClassifyEntries(Tail(dks),
                                         [acc EXCEPT !.platforms = @ \cup oses])

\* what one round leaves behind when it reaches no insert_dep call
NoCall == [made |-> FALSE, target |-> "", alias |-> "", conditional |-> FALSE,
           platforms |-> {}]

Round(rust_rule, ok, diag, locals, call) ==
    [rule |-> rust_rule, ok |-> ok, diag |-> diag, locals |-> locals,
     call |-> call]

\* set_deps, one round of `for dep in &node.deps`
SetDepsRound(rust_rule, dep, kind, use_workspace_alias) ==
    IF dep.pkg \notin DOMAIN packages_map
    THEN Round(rust_rule, TRUE, <<>>, Locals(FALSE, {}, FALSE), NoCall)
    ELSE
    LET dep_package == packages_map[dep.pkg]
        locals == ClassifyEntries(
                      SelectSeq(dep.dep_kinds,
                                LAMBDA dk : dep_kind_matches(kind, dk.kind)),
                      Locals(FALSE, {}, FALSE))
    IN IF ~locals.unconditional /\ locals.platforms = {}
       THEN Round(rust_rule, TRUE,
                  IF locals.has_unsupported_platform
                  THEN <<Diagnostic("note", "omitted", dep.name, dep_package.name)>>
                  ELSE <<>>,
                  locals, NoCall)
       ELSE LET resolved == resolve_dep_label(dep, dep_package, use_workspace_alias)
            IN IF ~resolved.ok
               THEN Round(rust_rule, FALSE,
                          <<Diagnostic("error", "failed to resolve dependency label",
                                       dep.name, dep_package.name)>>,
                          locals, NoCall)
               ELSE LET target_label == resolved.value.label
                        alias == resolved.value.alias
                        conditional == ~locals.unconditional
                        r == insert_dep(rust_rule, target_label, alias, conditional,
                                        locals.platforms, dep.name, dep_package.name)
                    IN Round(r.rule, r.ok, r.diag, locals,
                             [made |-> TRUE, target |-> target_label,
                              alias |-> alias, conditional |-> conditional,
                              platforms |-> IF conditional THEN locals.platforms
                                            ELSE {}])

(***************************************************************************)
(* Idle values: a specification keeps the variables of the others here     *)
(***************************************************************************)
FpIdle == nodeA = None /\ nodeB = None /\ fpA = NoFp /\ fpB = NoFp

DiffIdle == g1 = EmptyGraph /\ g2 = EmptyGraph /\ diffDone = FALSE /\ diffOut = <<>>

RunIdle ==
    /\ cmd = "idle"
    /\ pc = "idle"
    /\ ctx = EmptyGraph
    /\ last_cache = new_empty
    /\ new_cache = new_empty
    /\ changes = <<>>
    /\ idx = 1
    /\ loadFailed = FALSE
    /\ metadataAtStart = EmptyGraph
    /\ log = {}

CmdIdle ==
    /\ cargo = EmptyGraph
    /\ snapFile = NoSnapshot
    /\ buck = NoBuckFiles
    /\ edits = 0
    /\ unfinished = {}
    /\ RunIdle

DepsIdle ==
    /\ emit_kind = "Lib"
    /\ emit_alias = FALSE
    /\ emit_rule = EmptyRule
    /\ emit_dep = [name |-> "", pkg |-> "", dep_kinds |-> <<>>]
    /\ emit_locals = Locals(FALSE, {}, FALSE)
    /\ emit_call = NoCall
    /\ emit_rounds = 0
    /\ emit_status = "idle"
    /\ emit_diag = <<>>

\* the sentinel of a BUCK file that does not exist
NoFile == [exists |-> FALSE, ok |-> TRUE, stmts |-> <<>>]

GenIdle ==
    /\ gen_node = None
    /\ gen_fields = {}
    /\ gen_no_merge = FALSE
    /\ gen_file = NoFile
    /\ gen_prev = NoFile
    /\ gen_rules = <<>>
    /\ gen_noop = <<>>
    /\ gen_pc = "idle"
    /\ gen_added = {}

\* no patch applied yet
NoPatch == [fn |-> "none", rule_name |-> "", target_name |-> ""]

PatchIdle ==
    /\ patch_text = NoFile
    /\ patch_prev = NoFile
    /\ patch_last = NoPatch
    /\ patch_count = 0

CfgIdle ==
    /\ cfg_installed = {}
    /\ cfg_once = "idle"
    /\ cfg_results = <<>>
    /\ cfg_queries = <<>>
    /\ CFG_CACHE = <<>>
    /\ cfg_callers = <<>>

DagIdle ==
    /\ dag_input = <<>>
    /\ dag_nodes = {}
    /\ dag_edges = {}
    /\ dag_done = {}
    /\ dag_pc = "idle"

RenIdle ==
    /\ ren_rules = <<>>
    /\ ren_deps = <<>>
    /\ ren_env = <<>>
    /\ ren_out = <<>>

LabIdle ==
    /\ lab_inherit = FALSE
    /\ lab_is_root = FALSE
    /\ lab_deps = <<>>
    /\ lab_others = {}
    /\ lab_aliases = <<>>
    /\ lab_rule = EmptyRule
    /\ lab_idx = 0
    /\ lab_pc = "idle"

TextIdle == GenIdle /\ PatchIdle /\ CfgIdle /\ DagIdle /\ RenIdle /\ LabIdle

(***************************************************************************)
(* SpecFp: fingerprints of two node records drawn from bounded sets        *)
(***************************************************************************)
\* from_metadata derives the kind from the package's source, so a package
\* id and its kind come together.
FpOrigins ==
    {[package_id |-> "registry+idx#foo@1.0.0", kind |-> ThirdParty],
     [package_id |-> "path+file:///ws/crates/foo#foo@1.0.0",
      kind |-> FirstParty("crates/foo")]}
FpNames == {"foo", "bar"}
FpVersions == {"1.0.0", "1.1.0"}
FpEditions == {"2018", "2021"}
FpFeatureNames == {"alloc", "std"}
FpDepIds == {"registry+idx#a@1.0.0", "registry+idx#b@1.0.0"}

\* features: cargo lists each activated feature once; dep_ids: one entry per
\* NodeDep, so one package may be listed more than once.
FpNodes ==
    {[package_id |-> o.package_id,
      name |-> r.name,
      version |-> r.version,
      features |-> r.features,
      kind |-> o.kind,
      edition |-> r.edition,
      dep_ids |-> r.dep_ids] :
        o \in FpOrigins,
        r \in [name : FpNames,
               version : FpVersions,
               features : {s \in SeqsUpTo(FpFeatureNames, MaxFeatures) : NoDup(s)},
               edition : FpEditions,
               dep_ids : SeqsUpTo(FpDepIds, MaxDepIds)]}

InitFp ==
    /\ nodeA \in FpNodes
    /\ nodeB \in FpNodes
    /\ fpA = NoFp
    /\ fpB = NoFp
    /\ DiffIdle
    /\ CmdIdle
    /\ DepsIdle
    /\ TextIdle

ComputeFingerprints ==
    /\ fpA = NoFp
    /\ fpA' = fingerprint(nodeA)
    /\ fpB' = fingerprint(nodeB)
    /\ UNCHANGED <<nodeA, nodeB>>
    /\ UNCHANGED <<diffVars, cmdVars, depVars, textVars>>

NextFp == ComputeFingerprints

SpecFp == InitFp /\ [][NextFp]_vars

\* The semantic content the specification names: name, version, edition,
\* set of features, set of dependency identifiers.
SameSemantic(a, b) ==
    /\ a.name = b.name
    /\ a.version = b.version
    /\ a.edition = b.edition
    /\ Range(a.features) = Range(b.features)
    /\ Range(a.dep_ids) = Range(b.dep_ids)

\* C4 as claimed: equal fingerprints exactly when the semantic content is
\* the same, whatever the order of the two lists.
C4_Original ==
    fpA # NoFp => ((fpA = fpB) <=> SameSemantic(nodeA, nodeB))

\* C4 (amended): two node records have the same fingerprint if and only if
\* every serialized field is equal: package id, name, version, the feature
\* list in its order, kind, edition and the dependency-id list in its order.
\* So a change of name, version, edition, feature membership or dependency
\* membership changes the fingerprint.
C4_FingerprintIffSameRecord ==
    fpA # NoFp =>
        /\ (fpA = fpB) <=> (nodeA = nodeB)
        /\ ~SameSemantic(nodeA, nodeB) => fpA # fpB

\* Two records that list the same features in a different order have been
\* fingerprinted, and the fingerprints differ.
C4_Witness ==
    /\ fpA # NoFp
    /\ nodeA.features = <<"alloc", "std">>
    /\ nodeB.features = <<"std", "alloc">>
    /\ nodeA.dep_ids = nodeB.dep_ids
    /\ nodeA.package_id = nodeB.package_id
    /\ nodeA.kind = nodeB.kind
    /\ SameSemantic(nodeA, nodeB)
    /\ fpA # fpB

(***************************************************************************)
(* SpecDiff: diff of a current graph against the snapshot of a previous    *)
(* graph (or against no snapshot at all)                                   *)
(***************************************************************************)
InitDiff ==
    /\ g1 \in Graphs \cup {EmptyGraph}
    /\ g2 \in Graphs
    /\ diffDone = FALSE
    /\ diffOut = <<>>
    /\ FpIdle
    /\ CmdIdle
    /\ DepsIdle
    /\ TextIdle

Diff ==
    /\ ~diffDone
    /\ diffDone' = TRUE
    /\ diffOut' = ComputeChanges(g2, from_resolve(g1))
    /\ UNCHANGED <<g1, g2, fpVars, cmdVars, depVars, textVars>>

NextDiff == Diff

SpecDiff == InitDiff /\ [][NextDiff]_vars

\* The entries of a change set that name the identifier.
EntriesOf(chs, id) == {i \in 1..Len(chs) : chs[i].id = id}

TagsOf(chs, id) == {chs[i].change_type : i \in EntriesOf(chs, id)}

\* What the entry of an identifier must be, from the two graphs alone.
Expected(prev, cur, id) ==
    IF id \in DOMAIN cur /\ id \notin DOMAIN prev THEN "Added"
    ELSE IF id \in DOMAIN prev /\ id \notin DOMAIN cur THEN "Removed"
    ELSE IF id \in DOMAIN prev /\ id \in DOMAIN cur
            /\ fingerprint(prev[id]) # fingerprint(cur[id]) THEN "Changed"
    ELSE "Omitted"

\* C1: diff(C, P) holds every identifier that is only in C as Added, every
\* identifier in both with different fingerprints as Changed, every
\* identifier only in P as Removed, each exactly once, and no identifier
\* whose fingerprint is the same in both.
C1_DiffComplete ==
    diffDone =>
        \A id \in PkgIds :
            IF Expected(g1, g2, id) = "Omitted"
            THEN EntriesOf(diffOut, id) = {}
            ELSE /\ Cardinality(EntriesOf(diffOut, id)) = 1
                 /\ TagsOf(diffOut, id) = {Expected(g1, g2, id)}

\* A diff with an Added, a Changed and a Removed entry and an unchanged node.
C1_Witness ==
    /\ diffDone
    /\ \E a, c, r, u \in PkgIds :
        /\ Expected(g1, g2, a) = "Added"
        /\ Expected(g1, g2, c) = "Changed"
        /\ Expected(g1, g2, r) = "Removed"
        /\ u \in DOMAIN g1 /\ u \in DOMAIN g2 /\ Expected(g1, g2, u) = "Omitted"
        /\ Len(diffOut) = 3

(***************************************************************************)
(* Spec: the regenerating commands migrate and add over a world in which   *)
(* the manifest is edited and the snapshot file may be deleted             *)
(***************************************************************************)
\* The graphs of this specification: the root and serde.
CmdGraphs == {g \in Graphs : LibcId \notin DOMAIN g}

\* The process ends: its variables are gone.
RunEnds ==
    /\ cmd' = "idle"
    /\ pc' = "idle"
    /\ ctx' = EmptyGraph
    /\ last_cache' = new_empty
    /\ new_cache' = new_empty
    /\ changes' = <<>>
    /\ idx' = 1
    /\ loadFailed' = FALSE
    /\ metadataAtStart' = EmptyGraph
    /\ log' = {}

Init ==
    /\ cargo \in CmdGraphs
    /\ snapFile = NoSnapshot
    /\ buck = NoBuckFiles
    /\ edits = 0
    /\ unfinished = {}
    /\ RunIdle
    /\ FpIdle
    /\ DiffIdle
    /\ DepsIdle
    /\ TextIdle

\* The user edits the manifest or the lock file: cargo resolves a new graph.
EditManifest ==
    /\ cmd = "idle"
    /\ edits < MaxEdits
    /\ \E g \in CmdGraphs : g # cargo /\ cargo' = g
    /\ edits' = edits + 1
    /\ UNCHANGED <<snapFile, buck, unfinished, runVars>>

\* buckal.snap is deleted (or was never committed to the checkout).
DeleteSnapshot ==
    /\ cmd = "idle"
    /\ snapFile.present
    /\ edits < MaxEdits
    /\ snapFile' = NoSnapshot
    /\ edits' = edits + 1
    /\ UNCHANGED <<cargo, buck, unfinished, runVars>>

\* migrate.rs 112-117: BuckalContext::new, flush_root.
MigrateStart ==
    /\ cmd = "idle"
    /\ cmd' = "migrate"
    /\ pc' = "load"
    /\ ctx' = cargo
    /\ LET r == flush_root(cargo, buck, {}) IN buck' = r.buck /\ log' = r.log
    /\ UNCHANGED <<cargo, snapFile, edits, unfinished, last_cache, new_cache,
                   changes, idx, loadFailed, metadataAtStart>>

\* migrate.rs 119-123: an empty previous state when asked for (no_cache) or
\* when the snapshot cannot be loaded.
MigrateLoad ==
    /\ cmd = "migrate" /\ pc = "load"
    /\ \E no_cache \in BOOLEAN :
        /\ last_cache' = IF no_cache THEN new_empty ELSE migrate_last_cache(snapFile)
        /\ loadFailed' = ~snapFile.present
    /\ pc' = "diff"
    /\ UNCHANGED <<worldVars, cmd, ctx, new_cache, changes, idx, metadataAtStart, log>>

\* add.rs 50: last_cache = get_last_cache().
AddStart ==
    /\ cmd = "idle"
    /\ cmd' = "add"
    /\ pc' = "cargo"
    /\ last_cache' = get_last_cache(snapFile, cargo)
    /\ loadFailed' = ~snapFile.present
    /\ metadataAtStart' = cargo
    /\ log' = {}
    /\ UNCHANGED <<worldVars, ctx, new_cache, changes, idx>>

\* add.rs 52-58: cargo add edits the manifest of the root; the graph keeps
\* its root and may gain, lose or change third-party nodes.
AddCargo ==
    /\ cmd = "add" /\ pc = "cargo"
    /\ edits < MaxEdits
    /\ \E g \in CmdGraphs : RootOf(g) = RootOf(cargo) /\ cargo' = g
    /\ edits' = edits + 1
    /\ pc' = "context"
    /\ UNCHANGED <<snapFile, buck, unfinished, cmd, ctx, last_cache, new_cache,
                   changes, idx, loadFailed, metadataAtStart, log>>

\* add.rs 52-58: cargo add fails, the command exits.
AddCargoFails ==
    /\ cmd = "add" /\ pc = "cargo"
    /\ RunEnds
    /\ UNCHANGED worldVars

\* add.rs 63-64: BuckalContext::new, flush_root.
AddContext ==
    /\ cmd = "add" /\ pc = "context"
    /\ ctx' = cargo
    /\ LET r == flush_root(cargo, buck, log) IN buck' = r.buck /\ log' = r.log
    /\ pc' = "diff"
    /\ UNCHANGED <<cargo, snapFile, edits, unfinished, cmd, last_cache, new_cache,
                   changes, idx, loadFailed, metadataAtStart>>

\* add.rs 66-70, migrate.rs 124-125: the new cache and the change set.
ComputeDiff ==
    /\ cmd \in {"migrate", "add"} /\ pc = "diff"
    /\ new_cache' = from_resolve(ctx)
    /\ changes' = ComputeChanges(ctx, last_cache)
    /\ idx' = 1
    /\ pc' = "apply"
    /\ UNCHANGED <<worldVars, cmd, ctx, last_cache, loadFailed, metadataAtStart, log>>

\* actions.rs 30-119: one iteration of the loop of apply.
ApplyStep ==
    /\ pc = "apply"
    /\ idx <= Len(changes)
    /\ LET r == ApplyEntry(changes[idx], ctx, buck, log)
       IN buck' = r.buck /\ log' = r.log
    /\ idx' = idx + 1
    /\ UNCHANGED <<cargo, snapFile, edits, unfinished, cmd, pc, ctx, last_cache,
                   new_cache, changes, loadFailed, metadataAtStart>>

\* the nodes of the entries from position i on that apply would regenerate
Unprocessed(chs, i, c) ==
    {chs[j].id : j \in {k \in i..Len(chs) :
                            /\ chs[k].change_type \in {"Added", "Changed"}
                            /\ chs[k].id # RootOf(c)
                            /\ chs[k].id \in DOMAIN c}}

\* actions.rs 59, 75, 83, 90: vendoring, parsing the existing file or
\* writing fails while an entry is processed; the process ends there.
ApplyAborts ==
    /\ pc = "apply"
    /\ idx <= Len(changes)
    /\ changes[idx].change_type \in {"Added", "Changed"}
    /\ changes[idx].id # RootOf(ctx)
    /\ unfinished' = Unprocessed(changes, idx, ctx)
    /\ RunEnds
    /\ UNCHANGED <<cargo, snapFile, buck, edits>>

\* add.rs 73, migrate.rs 131: new_cache.save().
Save ==
    /\ pc = "apply"
    /\ idx > Len(changes)
    /\ snapFile' = [present |-> TRUE, fingerprints |-> new_cache]
    /\ unfinished' = {}
    /\ RunEnds
    /\ UNCHANGED <<cargo, buck, edits>>

\* BuckalResolve::find_by_name: a node with the name and, when a version is
\* given, with the version; None when there is none
find_by_name(resolve, name, version) ==
    LET found == {id \in DOMAIN resolve :
                     /\ resolve[id].name = name
                     /\ version # None => resolve[id].version = version}
    IN IF found = {} THEN None ELSE CHOOSE id \in found : TRUE

\* BuckalResolve::dependents: the parents of the node in the DAG
dependents(resolve, pkg_id) ==
    {id \in DOMAIN resolve : pkg_id \in Range(resolve[id].dep_ids)}

\* patch.rs regenerate_node_buck: nothing for the root, the BUCK file of any
\* other node is generated from the node
regenerate_node_buck(pkg_id, c, b) ==
    IF pkg_id = RootOf(c) THEN b
    ELSE [b EXCEPT ![Dir(pkg_id)] = fingerprint(c[pkg_id])]

RECURSIVE regenerate_all(_, _, _)
regenerate_all(ids, c, b) ==
    IF ids = {} THEN b
    ELSE LET id == CHOOSE x \in ids : TRUE
         IN regenerate_all(ids \ {id}, c, regenerate_node_buck(id, c, b))

\* `cargo update -p name@old --precise new`: the package is at the new
\* version; the packages it brings in may be added, the root and what the
\* root requires besides stay.
UpdatedGraphs(g, name, version) ==
    {h \in Graphs :
        /\ RootOf(h) = RootOf(g)
        /\ find_by_name(h, name, version) # None
        /\ LibcId \in DOMAIN g => LibcId \in DOMAIN h}

\* what do_execute needs to get as far as the regeneration: the dependency
\* is in the graph at another version and comes from a registry (cargo
\* update refuses a precise version for a path package)
CanPatch(dep_name, target_version) ==
    /\ cmd = "idle"
    /\ edits < MaxEdits
    /\ find_by_name(cargo, dep_name, None) # None
    /\ ~IsFirstParty(find_by_name(cargo, dep_name, None))
    /\ cargo[find_by_name(cargo, dep_name, None)].version # target_version
    /\ UpdatedGraphs(cargo, dep_name, target_version) # {}

\* patch.rs 45-126, the whole command: cargo update, a fresh context,
\* flush_root, the patched node and its dependents regenerated, the snapshot
\* of the whole graph saved.
PatchExecute(dep_name, target_version) ==
    /\ CanPatch(dep_name, target_version)
    /\ \E g \in UpdatedGraphs(cargo, dep_name, target_version) :
        LET new_node == find_by_name(g, dep_name, target_version)
            flushed == flush_root(g, buck, {}).buck
        IN /\ cargo' = g
           /\ buck' = regenerate_all(dependents(g, new_node), g,
                                     regenerate_node_buck(new_node, g, flushed))
           /\ snapFile' = [present |-> TRUE, fingerprints |-> from_resolve(g)]
    /\ edits' = edits + 1
    /\ unfinished' = {}
    /\ UNCHANGED runVars

\* patch.rs 100, 108, 172-186: regenerate_node_buck fails (the existing BUCK
\* file does not parse, a file cannot be written) for the patched node; the
\* command ends after cargo update and flush_root.
PatchAborts(dep_name, target_version) ==
    /\ CanPatch(dep_name, target_version)
    /\ \E g \in UpdatedGraphs(cargo, dep_name, target_version) :
        LET new_node == find_by_name(g, dep_name, target_version)
        IN /\ cargo' = g
           /\ buck' = flush_root(g, buck, {}).buck
           /\ unfinished' = ({new_node} \cup dependents(g, new_node)) \ {RootOf(g)}
    /\ edits' = edits + 1
    /\ UNCHANGED <<snapFile, runVars>>

PatchNames == {"serde", "libc", "app"}
PatchVersions == {"1.0.0", "1.1.0", "0.2.0"}

Next ==
    \/ (EditManifest /\ UNCHANGED <<fpVars, diffVars, depVars, textVars>>)
    \/ (DeleteSnapshot /\ UNCHANGED <<fpVars, diffVars, depVars, textVars>>)
    \/ (MigrateStart /\ UNCHANGED <<fpVars, diffVars, depVars, textVars>>)
    \/ (MigrateLoad /\ UNCHANGED <<fpVars, diffVars, depVars, textVars>>)
    \/ (AddStart /\ UNCHANGED <<fpVars, diffVars, depVars, textVars>>)
    \/ (AddCargo /\ UNCHANGED <<fpVars, diffVars, depVars, textVars>>)
    \/ (AddCargoFails /\ UNCHANGED <<fpVars, diffVars, depVars, textVars>>)
    \/ (AddContext /\ UNCHANGED <<fpVars, diffVars, depVars, textVars>>)
    \/ (ComputeDiff /\ UNCHANGED <<fpVars, diffVars, depVars, textVars>>)
    \/ (ApplyStep /\ UNCHANGED <<fpVars, diffVars, depVars, textVars>>)
    \/ (ApplyAborts /\ UNCHANGED <<fpVars, diffVars, depVars, textVars>>)
    \/ (Save /\ UNCHANGED <<fpVars, diffVars, depVars, textVars>>)
    \/ (\E dep_name \in PatchNames, target_version \in PatchVersions :
            PatchExecute(dep_name, target_version)
                /\ UNCHANGED <<fpVars, diffVars, depVars, textVars>>)
    \/ (\E dep_name \in PatchNames, target_version \in PatchVersions :
            PatchAborts(dep_name, target_version)
                /\ UNCHANGED <<fpVars, diffVars, depVars, textVars>>)

Spec == Init /\ [][Next]_vars

TypeOK ==
    /\ cmd \in {"idle", "migrate", "add"}
    /\ pc \in {"idle", "load", "cargo", "context", "diff", "apply"}
    /\ edits \in 0..MaxEdits

\* The entries of the change set are those of Expected(prev, cur, .).
ChangesAre(prev, cur) ==
    \A id \in PkgIds :
        IF Expected(prev, cur, id) = "Omitted"
        THEN EntriesOf(changes, id) = {}
        ELSE /\ Cardinality(EntriesOf(changes, id)) = 1
             /\ TagsOf(changes, id) = {Expected(prev, cur, id)}

MaxEdges == 2

DepKindInfo(dep_kind, target) == [kind |-> dep_kind, target |-> target]

NodeDep(name, pkg, dep_kinds) == [name |-> name, pkg |-> pkg, dep_kinds |-> dep_kinds]

NoDep == NodeDep("", "", <<>>)

\* the dep_kinds entries an edge is built from
DepKindInfos ==
    {DepKindInfo("Normal", t) : t \in Platforms \cup {NoTarget}}
    \cup {DepKindInfo(k, t) : k \in {"Development", "Build"},
                              t \in {NoTarget, CfgUnix}}

\* the entries that also occur in two-entry lists, in the order of the list
PairedDepKindInfos ==
    <<DepKindInfo("Normal", NoTarget), DepKindInfo("Normal", CfgUnix),
      DepKindInfo("Normal", CfgWindows), DepKindInfo("Normal", CfgWasm),
      DepKindInfo("Normal", CfgMiri), DepKindInfo("Development", NoTarget),
      DepKindInfo("Build", NoTarget)>>

\* one entry, or two different entries
DepKindLists ==
    {<<a>> : a \in DepKindInfos}
    \cup UNION {{<<PairedDepKindInfos[i], PairedDepKindInfos[j]>> :
                    j \in (i + 1)..Len(PairedDepKindInfos)} :
                 i \in 1..Len(PairedDepKindInfos)}

BaseDepKindLists ==
    {<<DepKindInfo("Normal", t)>> : t \in {NoTarget, CfgUnix}}

\* The edges of the node: every entry list on an unnamed and on a renamed
\* edge to serde 1.0.0, and the base lists on edges to the other packages,
\* among them a second version under the same rename, a first-party crate
\* under its normalised name, a crate without a library target, and a
\* package id that is missing from packages_map.
NodeDeps ==
    {NodeDep(nm, SerdeId1, dks) : nm \in {"serde", "al"}, dks \in DepKindLists}
    \cup {NodeDep(e[1], e[2], dks) :
            e \in {<<"serde", SerdeId2>>, <<"al", SerdeId2>>,
                   <<"my_util", UtilId>>, <<"al", UtilId>>,
                   <<"no_lib", NoLibId>>, <<"ghost", GhostId>>},
            dks \in BaseDepKindLists}

InitDeps ==
    /\ emit_kind \in CargoTargetKinds
    /\ emit_alias \in BOOLEAN
    /\ emit_rule = EmptyRule
    /\ emit_dep = NoDep
    /\ emit_locals = Locals(FALSE, {}, FALSE)
    /\ emit_call = NoCall
    /\ emit_rounds = 0
    /\ emit_status = "running"
    /\ emit_diag = <<>>
    /\ FpIdle
    /\ DiffIdle
    /\ CmdIdle
    /\ TextIdle

\* One round of the loop of set_deps on the next edge of the node.  An Err
\* leaves set_deps; the emitter's unwrap_or_exit_ctx then ends the process.
SetDepsStep ==
    /\ emit_status = "running"
    /\ emit_rounds < MaxEdges
    /\ \E dep \in NodeDeps :
          LET r == SetDepsRound(emit_rule, dep, emit_kind, emit_alias)
          IN /\ emit_rule' = r.rule
             /\ emit_dep' = dep
             /\ emit_locals' = r.locals
             /\ emit_call' = r.call
             /\ emit_diag' = emit_diag \o r.diag
             /\ emit_status' = IF r.ok THEN "running" ELSE "exit"
    /\ emit_rounds' = emit_rounds + 1
    /\ UNCHANGED <<emit_kind, emit_alias>>
    /\ UNCHANGED <<fpVars, diffVars, cmdVars, textVars>>

\* node.deps is exhausted: set_deps returns Ok(())
SetDepsReturns ==
    /\ emit_status = "running"
    /\ emit_status' = "ok"
    /\ UNCHANGED <<emit_kind, emit_alias, emit_rule, emit_dep, emit_locals,
                   emit_call, emit_rounds, emit_diag>>
    /\ UNCHANGED <<fpVars, diffVars, cmdVars, textVars>>

NextDeps == SetDepsStep \/ SetDepsReturns

SpecDeps == InitDeps /\ [][NextDeps]_vars

(***************************************************************************)
(* Properties of SpecDeps                                                  *)
(***************************************************************************)
\* this step is one round of the loop of set_deps
RoundTaken == emit_rounds' = emit_rounds + 1

\* the edge of the round points to a package of packages_map
PackageKnown(dep) == dep.pkg \in DOMAIN packages_map

\* the kinds the rule kinds take, as a table
ApplicableKind(target_kind, dep_kind) ==
    \/ target_kind \in {"Lib", "Bin"} /\ dep_kind = "Normal"
    \/ target_kind = "CustomBuild" /\ dep_kind = "Build"
    \/ target_kind = "Test" /\ dep_kind \in {"Normal", "Development"}

\* the entries of an edge whose kind the table gives to the rule kind
ApplicableEntries(dep, target_kind) ==
    {dep.dep_kinds[i] : i \in {j \in 1..Len(dep.dep_kinds) :
                                 ApplicableKind(target_kind, dep.dep_kinds[j].kind)}}

IsConditional(dk) == dk.target # NoTarget

ResolvesToNoOs(dk) == IsConditional(dk) /\ oses_from_platform(dk.target) = {}

\* the union of the OS sets the conditional entries of a set resolve to
OsUnion(entries) ==
    UNION {oses_from_platform(dk.target) : dk \in {e \in entries : IsConditional(e)}}

\* C10: when dependencies are attached to a rule, an entry of an edge counts
\* only if its kind is normal for Lib and Bin rules, build for build-script
\* rules, normal or development for Test rules: an edge without such an
\* entry leaves the rule and the diagnostics untouched, an edge with one is
\* attached, reported or fails, and what is attached is decided by those
\* entries alone (unconditional only if one of them has no predicate or
\* resolves to no OS, platform-scoped for exactly the union of their OS sets).
C10_ApplicableKinds ==
    [][(RoundTaken /\ PackageKnown(emit_dep')) =>
        LET app == ApplicableEntries(emit_dep', emit_kind)
        IN /\ (app = {}) =>
                  /\ emit_rule' = emit_rule
                  /\ emit_diag' = emit_diag
                  /\ ~emit_call'.made
                  /\ emit_status' = "running"
           /\ (app # {}) =>
                  \/ emit_call'.made
                  \/ Len(emit_diag') > Len(emit_diag)
           /\ (emit_call'.made /\ ~emit_call'.conditional) =>
                  \E dk \in app : ~IsConditional(dk) \/ ResolvesToNoOs(dk)
           /\ (emit_call'.made /\ emit_call'.conditional) =>
                  emit_call'.platforms = OsUnion(app)
      ]_vars

\* A Lib rule has taken an edge with a conditional normal entry and an
\* unconditional build entry: only the normal entry counted.
C10_Witness ==
    /\ emit_kind = "Lib"
    /\ emit_dep.dep_kinds = <<DepKindInfo("Normal", CfgUnix),
                              DepKindInfo("Build", NoTarget)>>
    /\ emit_call.made
    /\ emit_call.conditional
    /\ emit_call.platforms = {"Macos", "Linux"}
    /\ emit_call.target \in emit_rule.os_deps["linux"]

\* C5: when a platform-scoped edge uses an alias that the rule already has
\* on one of its OS keys with a different label, the round ends in a
\* conflict error (the process exits) and no label recorded for any
\* (alias, OS) is overwritten; when every OS key the alias already has holds
\* the same label, the round is no conflict and the label is recorded for
\* every OS of the edge.
C5_OsNamedDepsConflict ==
    [][(RoundTaken /\ emit_call'.made /\ emit_call'.conditional
        /\ emit_call'.alias # "") =>
        LET alias == emit_call'.alias
            target == emit_call'.target
            keys == {key(os) : os \in emit_call'.platforms}
            before == MapGetOr(emit_rule.os_named_deps, alias, EmptyMap)
            conflict == \E k \in keys : k \in DOMAIN before /\ before[k] # target
        IN /\ \A a \in DOMAIN emit_rule.os_named_deps :
                 \A k \in DOMAIN emit_rule.os_named_deps[a] :
                     /\ a \in DOMAIN emit_rule'.os_named_deps
                     /\ k \in DOMAIN emit_rule'.os_named_deps[a]
                     /\ emit_rule'.os_named_deps[a][k] = emit_rule.os_named_deps[a][k]
           /\ conflict =>
                 /\ emit_status' = "exit"
                 /\ Len(emit_diag') = Len(emit_diag) + 1
                 /\ emit_diag'[Len(emit_diag')].level = "error"
                 /\ emit_diag'[Len(emit_diag')].what = "os_named_deps conflict"
           /\ ~conflict =>
                 /\ emit_status' = "running"
                 /\ emit_diag' = emit_diag
                 /\ \A k \in keys : emit_rule'.os_named_deps[alias][k] = target
      ]_vars

\* A platform-scoped edge has met its alias on one of its OS keys with
\* another label: the run has ended in the error and the label is still there.
C5_Witness ==
    /\ emit_status = "exit"
    /\ emit_call.made
    /\ emit_call.conditional
    /\ emit_call.alias \in DOMAIN emit_rule.os_named_deps
    /\ \E os \in emit_call.platforms :
          /\ key(os) \in DOMAIN emit_rule.os_named_deps[emit_call.alias]
          /\ emit_rule.os_named_deps[emit_call.alias][key(os)] # emit_call.target
    /\ emit_diag # <<>>
    /\ emit_diag[Len(emit_diag)].what = "os_named_deps conflict"

\* C6: when an unconditional edge uses an alias that named_deps already
\* binds to a different label, named_deps keeps the label recorded first, a
\* warning is emitted and set_deps goes on without error; no round ever
\* changes a label that named_deps holds.
C6_NamedDepsFirstWins ==
    [][RoundTaken =>
        /\ \A a \in DOMAIN emit_rule.named_deps :
              /\ a \in DOMAIN emit_rule'.named_deps
              /\ emit_rule'.named_deps[a] = emit_rule.named_deps[a]
        /\ (/\ emit_call'.made
            /\ ~emit_call'.conditional
            /\ emit_call'.alias \in DOMAIN emit_rule.named_deps
            /\ emit_rule.named_deps[emit_call'.alias] # emit_call'.target) =>
              /\ emit_rule' = emit_rule
              /\ Len(emit_diag') = Len(emit_diag) + 1
              /\ emit_diag'[Len(emit_diag')].level = "warn"
              /\ emit_diag'[Len(emit_diag')].what = "named_deps conflict"
              /\ emit_status' = "running"
      ]_vars

\* A second unconditional edge has used an alias with another label: the
\* first label is kept, the warning is the last diagnostic, set_deps goes on.
C6_Witness ==
    /\ emit_status = "running"
    /\ emit_call.made
    /\ ~emit_call.conditional
    /\ emit_call.alias \in DOMAIN emit_rule.named_deps
    /\ emit_rule.named_deps[emit_call.alias] # emit_call.target
    /\ emit_diag # <<>>
    /\ emit_diag[Len(emit_diag)].what = "named_deps conflict"

\* the label and alias the edge resolves to
Resolved(dep) == resolve_dep_label(dep, packages_map[dep.pkg], emit_alias)

OsKeys(oses) == {key(os) : os \in oses}

\* an entry whose predicate resolves to no OS without being a pure
\* target-identity predicate: it could not be evaluated
Unevaluable(dk) == ResolvesToNoOs(dk) /\ ~platform_is_target_only(dk.target)

\* between rule r and rule r2 the label went to an unconditional attribute
\* and nowhere else: to deps, or to named_deps under the alias unless the
\* alias was bound already
AttachedUnconditionalOnly(r, r2, label, alias) ==
    /\ r2.os_deps = r.os_deps
    /\ r2.os_named_deps = r.os_named_deps
    /\ (alias = "") =>
          /\ r2.deps = r.deps \cup {label}
          /\ r2.named_deps = r.named_deps
    /\ (alias # "") =>
          /\ r2.deps = r.deps
          /\ DOMAIN r2.named_deps = DOMAIN r.named_deps \cup {alias}
          /\ \A b \in DOMAIN r.named_deps : r2.named_deps[b] = r.named_deps[b]
          /\ (alias \notin DOMAIN r.named_deps) => r2.named_deps[alias] = label

\* the alias already holds another label on one of the OS keys
ScopedConflict(r, label, alias, oses) ==
    /\ alias \in DOMAIN r.os_named_deps
    /\ \E k \in OsKeys(oses) :
          k \in DOMAIN r.os_named_deps[alias] /\ r.os_named_deps[alias][k] # label

\* between rule r and rule r2 the label went to the platform-scoped
\* attribute under exactly the keys of oses (a non-empty set), nowhere else
AttachedScopedExactly(r, r2, label, alias, oses) ==
    /\ r2.deps = r.deps
    /\ r2.named_deps = r.named_deps
    /\ (alias = "") =>
          /\ r2.os_named_deps = r.os_named_deps
          /\ DOMAIN r2.os_deps = DOMAIN r.os_deps \cup OsKeys(oses)
          /\ \A k \in DOMAIN r2.os_deps :
                r2.os_deps[k] = MapGetOr(r.os_deps, k, {})
                                  \cup (IF k \in OsKeys(oses) THEN {label} ELSE {})
    /\ (alias # "") =>
          LET before == MapGetOr(r.os_named_deps, alias, EmptyMap)
          IN /\ r2.os_deps = r.os_deps
             /\ DOMAIN r2.os_named_deps = DOMAIN r.os_named_deps \cup {alias}
             /\ \A b \in DOMAIN r.os_named_deps \ {alias} :
                   r2.os_named_deps[b] = r.os_named_deps[b]
             /\ DOMAIN r2.os_named_deps[alias] = DOMAIN before \cup OsKeys(oses)
             /\ \A k \in DOMAIN r2.os_named_deps[alias] :
                   r2.os_named_deps[alias][k] =
                       IF k \in OsKeys(oses) THEN label ELSE before[k]

\* C7 as stated, on the edges whose label resolves, whose predicates resolve
\* to at least one OS and whose alias meets no other label: with an
\* applicable entry without predicate the label goes to an unconditional
\* attribute only; with all applicable entries conditional it goes to the
\* platform-scoped attribute for exactly the union of their OS sets.
C7_Original ==
    [][(/\ RoundTaken
        /\ PackageKnown(emit_dep')
        /\ ApplicableEntries(emit_dep', emit_kind) # {}
        /\ Resolved(emit_dep').ok
        /\ OsUnion(ApplicableEntries(emit_dep', emit_kind)) # {}
        /\ ~ScopedConflict(emit_rule, Resolved(emit_dep').value.label,
                           Resolved(emit_dep').value.alias,
                           OsUnion(ApplicableEntries(emit_dep', emit_kind)))) =>
        LET app == ApplicableEntries(emit_dep', emit_kind)
            res == Resolved(emit_dep').value
        IN IF \E dk \in app : ~IsConditional(dk)
           THEN AttachedUnconditionalOnly(emit_rule, emit_rule', res.label, res.alias)
           ELSE AttachedScopedExactly(emit_rule, emit_rule', res.label, res.alias,
                                      OsUnion(app))
      ]_vars

\* C7, amended: for an edge with an applicable entry and a label that
\* resolves, if an applicable entry has no predicate, or has a predicate
\* that could not be evaluated, the label goes to an unconditional
\* attribute only (deps, or named_deps unless the alias is bound already);
\* otherwise it goes to the platform-scoped attribute for exactly the union
\* of the OS sets of the predicates, to no attribute when the union is
\* empty, and a conflicting label on one of those OS keys ends the run.
C7_AttachmentByPredicates ==
    [][(/\ RoundTaken
        /\ PackageKnown(emit_dep')
        /\ ApplicableEntries(emit_dep', emit_kind) # {}
        /\ Resolved(emit_dep').ok) =>
        LET app == ApplicableEntries(emit_dep', emit_kind)
            res == Resolved(emit_dep').value
        IN IF \E dk \in app : ~IsConditional(dk) \/ Unevaluable(dk)
           THEN /\ AttachedUnconditionalOnly(emit_rule, emit_rule',
                                             res.label, res.alias)
                /\ emit_status' = "running"
           ELSE IF OsUnion(app) = {}
           THEN emit_rule' = emit_rule /\ emit_status' = "running"
           ELSE IF ScopedConflict(emit_rule, res.label, res.alias, OsUnion(app))
           THEN emit_status' = "exit"
           ELSE /\ AttachedScopedExactly(emit_rule, emit_rule', res.label,
                                         res.alias, OsUnion(app))
                /\ emit_status' = "running"
      ]_vars

\* An edge with two conditional entries, cfg(unix) and cfg(windows), has
\* been attached under the three OS keys of the union and nowhere else.
C7_Witness ==
    /\ emit_kind = "Lib"
    /\ emit_rounds = 1
    /\ emit_dep.dep_kinds = <<DepKindInfo("Normal", CfgUnix),
                              DepKindInfo("Normal", CfgWindows)>>
    /\ emit_call.made
    /\ emit_call.alias = ""
    /\ DOMAIN emit_rule.os_deps = {"windows", "macos", "linux"}
    /\ \A k \in DOMAIN emit_rule.os_deps : emit_rule.os_deps[k] = {emit_call.target}
    /\ emit_rule.deps = {}

\* C8: an edge whose applicable predicates all resolve to no OS is dropped
\* from the rule (the rule stays as it was) when they are pure
\* target-identity predicates, and is attached as an unconditional
\* dependency when one of them could not be evaluated; set_deps knows no
\* platform-restriction mode, so the mode is never in force.
C8_EmptyPredicate ==
    [][(/\ RoundTaken
        /\ PackageKnown(emit_dep')
        /\ ApplicableEntries(emit_dep', emit_kind) # {}
        /\ \A dk \in ApplicableEntries(emit_dep', emit_kind) : ResolvesToNoOs(dk)) =>
        LET app == ApplicableEntries(emit_dep', emit_kind)
        IN IF \A dk \in app : platform_is_target_only(dk.target)
           THEN /\ emit_rule' = emit_rule
                /\ ~emit_call'.made
                /\ emit_status' = "running"
           ELSE Resolved(emit_dep').ok =>
                   /\ emit_call'.made
                   /\ ~emit_call'.conditional
                   /\ AttachedUnconditionalOnly(emit_rule, emit_rule',
                                                Resolved(emit_dep').value.label,
                                                Resolved(emit_dep').value.alias)
      ]_vars

\* An edge under cfg(target_arch = "wasm32") was dropped in the first round
\* (its note is in the diagnostics, the rule stayed empty), and an edge
\* under cfg(miri) has gone to deps in the second.
C8_Witness ==
    /\ emit_rounds = 2
    /\ Len(emit_diag) = 1
    /\ emit_diag[1].what = "omitted"
    /\ emit_dep.dep_kinds = <<DepKindInfo("Normal", CfgMiri)>>
    /\ emit_call.made
    /\ ~emit_call.conditional
    /\ emit_rule = [EmptyRule EXCEPT !.deps = {emit_call.target}]

\* C9 as stated: every round that drops an edge because its applicable
\* predicates are target-identity predicates resolving to no OS, and every
\* round that promotes an edge to unconditional because a predicate could
\* not be evaluated, adds a diagnostic.
C9_Original ==
    [][(/\ RoundTaken
        /\ PackageKnown(emit_dep')
        /\ ApplicableEntries(emit_dep', emit_kind) # {}
        /\ LET app == ApplicableEntries(emit_dep', emit_kind)
           IN \/ \A dk \in app :
                    ResolvesToNoOs(dk) /\ platform_is_target_only(dk.target)
              \/ /\ \A dk \in app : IsConditional(dk)
                 /\ \E dk \in app : Unevaluable(dk)) =>
        Len(emit_diag') > Len(emit_diag)
      ]_vars

(***************************************************************************)
(* buck.rs: the rule records.  A rule keeps its kind (the variant of enum  *)
(* Rule, written as the name of the function that renders it), its name,   *)
(* its collection fields and, for buildscript_run, the label of the build  *)
(* script binary.  srcs, crate, crate_root, edition, features and the      *)
(* compatibility sets follow the same code paths and are left out.         *)
(***************************************************************************)
RustRuleKinds == {"rust_library", "rust_binary", "rust_test"}

SetFields == {"env_srcs", "rustc_flags", "visibility", "deps"}
MapFields == {"env", "named_deps", "os_deps", "os_named_deps"}
ScalarFields == {"name", "buildscript_rule"}

\* Default::default() of a rule struct
RuleDefault(kind) ==
    [kind |-> kind, name |-> "", buildscript_rule |-> "", env |-> EmptyMap,
     env_srcs |-> {}, rustc_flags |-> {}, visibility |-> {}, deps |-> {},
     named_deps |-> EmptyMap, os_deps |-> EmptyMap, os_named_deps |-> EmptyMap]

\* Rule::as_rust_rule_mut is Some for a library and a binary only
as_rust_rule_mut(rule) == rule.kind \in {"rust_library", "rust_binary"}

(***************************************************************************)
(* buckify/deps.rs: set_deps, the whole loop over the edges of the node    *)
(***************************************************************************)
RECURSIVE set_deps(_, _, _, _)
set_deps(rust_rule, node_deps, kind, use_workspace_alias) ==
    IF node_deps = <<>>
    THEN [ok |-> TRUE, rule |-> rust_rule]
    ELSE LET r == SetDepsRound(rust_rule, Head(node_deps), kind,
                               use_workspace_alias)
         IN IF r.ok
            THEN set_deps(r.rule, Tail(node_deps), kind, use_workspace_alias)
            ELSE [ok |-> FALSE, rule |-> r.rule]

(***************************************************************************)
(* buckify/emit.rs.  An emitter returns the rule and whether set_deps      *)
(* returned Ok; on Err the emitter's unwrap_or_exit_ctx ends the process.  *)
(* The package and the node of the emitters are one record here: name,     *)
(* the target names by kind (libs, bins, tests, build), whether the        *)
(* library has unit tests, and the edges of the node (deps).               *)
(* inherit_workspace_deps is off, so use_workspace_alias is false.         *)
(***************************************************************************)
env_flags(package) == "@$(location :" \o package.name \o "-manifest[env_flags])"

emit_rust_library(package, node, buckal_name) ==
    set_deps([RuleDefault("rust_library") EXCEPT
                 !.name = buckal_name,
                 !.rustc_flags = {env_flags(package)},
                 !.visibility = {"PUBLIC"}],
             node.deps, "Lib", FALSE)

emit_rust_binary(package, node, buckal_name) ==
    set_deps([RuleDefault("rust_binary") EXCEPT
                 !.name = buckal_name,
                 !.rustc_flags = {env_flags(package)},
                 !.visibility = {"PUBLIC"}],
             node.deps, "Bin", FALSE)

emit_rust_test(package, node, buckal_name) ==
    set_deps([RuleDefault("rust_test") EXCEPT
                 !.name = buckal_name,
                 !.rustc_flags = {env_flags(package)},
                 !.visibility = {"PUBLIC"}],
             node.deps, "Test", FALSE)

emit_buildscript_build(build_target, package, node) ==
    set_deps([RuleDefault("rust_binary") EXCEPT
                 !.name = package.name \o "-" \o build_target,
                 !.rustc_flags = {env_flags(package)}],
             node.deps, "CustomBuild", FALSE)

\* str::strip_suffix("-build") on the build target names of the model
get_build_name(s) ==
    CASE s = "build-script-build" -> "build-script"
      [] OTHER -> s

\* the packages of the model declare no `links`, so no metadata of a
\* dependency's build script is added to env_srcs
emit_buildscript_run(package, node, build_target) ==
    [RuleDefault("buildscript_run") EXCEPT
        !.name = package.name \o "-" \o get_build_name(build_target) \o "-run",
        !.buildscript_rule = ":" \o package.name \o "-" \o build_target,
        !.env_srcs = {":" \o package.name \o "-manifest[env_dict]"},
        !.visibility = {"PUBLIC"}]

\* patch_with_buildscript naming the run rule by the whole target name
patch_with_buildscript_target_name(rust_rule, build_target, package) ==
    [rust_rule EXCEPT
        !.env = MapPut(@, "OUT_DIR",
                       "$(location :" \o package.name \o "-" \o build_target
                           \o "-run[out_dir])"),
        !.rustc_flags = @ \cup
            {"@$(location :" \o package.name \o "-" \o build_target
                 \o "-run[rustc_flags])"}]

patch_with_buildscript(rust_rule, build_target, package) ==
    LET build_name == get_build_name(build_target)
    IN [rust_rule EXCEPT
           !.env = MapPut(@, "OUT_DIR",
                          "$(location :" \o package.name \o "-" \o build_name
                              \o "-run[out_dir])"),
           !.rustc_flags = @ \cup
               {"@$(location :" \o package.name \o "-" \o build_name
                    \o "-run[rustc_flags])"}]

emit_http_archive(package) ==
    [RuleDefault("http_archive") EXCEPT !.name = package.name \o "-vendor"]

emit_filegroup(package) ==
    [RuleDefault("filegroup") EXCEPT !.name = package.name \o "-vendor"]

emit_cargo_manifest(package) ==
    [RuleDefault("cargo_manifest") EXCEPT !.name = package.name \o "-manifest"]

(***************************************************************************)
(* buckify/rules.rs: the rule list of one node.  status is "ok" when the   *)
(* function returns, "panicked" on a failed expect and "exited" when an    *)
(* emitter's unwrap_or_exit_ctx ends the process.                          *)
(***************************************************************************)
Emitted(status, rules) == [status |-> status, rules |-> rules]

\* `for rule in &mut buck_rules { if let Some(..) = rule.as_rust_rule_mut() .. }`
PatchRules(buck_rules, build_target, package) ==
    [i \in DOMAIN buck_rules |->
        IF as_rust_rule_mut(buck_rules[i])
        THEN patch_with_buildscript(buck_rules[i], build_target, package)
        ELSE buck_rules[i]]

AllOk(results) == \A i \in DOMAIN results : results[i].ok

RulesOf(results) == [i \in DOMAIN results |-> results[i].rule]

\* the tail both emitters share: patch the rules, then the build script
\* binary and its run rule
WithBuildScript(buck_rules, node) ==
    IF node.build = ""
    THEN Emitted("ok", buck_rules)
    ELSE LET buildscript_build == emit_buildscript_build(node.build, node, node)
         IN IF ~buildscript_build.ok
            THEN Emitted("exited", <<>>)
            ELSE Emitted("ok",
                         PatchRules(buck_rules, node.build, node)
                             \o <<buildscript_build.rule,
                                  emit_buildscript_run(node, node, node.build)>>)

buckify_dep_node(node) ==
    IF node.libs = <<>>
    THEN Emitted("panicked", <<>>)
    ELSE LET rust_library == emit_rust_library(node, node, node.name)
         IN IF ~rust_library.ok
            THEN Emitted("exited", <<>>)
            ELSE WithBuildScript(<<emit_http_archive(node),
                                   emit_cargo_manifest(node), rust_library.rule>>,
                                 node)

\* `for bin_target in &bin_targets`
BinRules(node) ==
    [i \in 1..Len(node.bins) |->
        LET rust_binary == emit_rust_binary(node, node, node.bins[i])
        IN IF node.bins[i] \in Range(node.libs)
           THEN [rust_binary EXCEPT !.rule.deps = @ \cup {":lib" \o node.bins[i]}]
           ELSE rust_binary]

\* the name of a first-party library rule without the disambiguating prefix
LibBuckalNamePlain(node, lib_target) == lib_target

\* the name of a first-party library rule
LibBuckalName(node, lib_target) ==
    IF lib_target \in Range(node.bins) THEN "lib" \o lib_target ELSE lib_target

\* `for lib_target in &lib_targets`, the unit test rule of a library after it
RECURSIVE LibRules(_, _)
LibRules(node, lib_targets) ==
    IF lib_targets = <<>>
    THEN <<>>
    ELSE LET lib_target == Head(lib_targets)
             rust_library ==
                 emit_rust_library(node, node, LibBuckalName(node, lib_target))
         IN <<rust_library>>
            \o (IF ~node.ignore_tests /\ node.lib_test
                THEN <<emit_rust_test(node, node, lib_target \o "-unittest")>>
                ELSE <<>>)
            \o LibRules(node, Tail(lib_targets))

\* `for test_target in &test_targets`
TestRules(node) ==
    IF node.ignore_tests
    THEN <<>>
    ELSE [i \in 1..Len(node.tests) |->
            LET rust_test == emit_rust_test(node, node, node.tests[i])
                package_name == ReplaceHyphens(node.name)
                lib_alias == package_name \in Range(node.bins)
                with_env ==
                    IF lib_alias
                    THEN [rust_test EXCEPT !.rule.env =
                             MapPut(@, "CARGO_BIN_EXE_" \o package_name,
                                    "$(location :" \o package_name \o ")")]
                    ELSE rust_test
            IN IF package_name \in Range(node.libs)
               THEN [with_env EXCEPT !.rule.deps = @ \cup
                        {IF lib_alias THEN ":lib" \o package_name
                         ELSE ":" \o package_name}]
               ELSE with_env]

buckify_root_node(node) ==
    LET results == BinRules(node) \o LibRules(node, node.libs) \o TestRules(node)
    IN IF ~AllOk(results)
       THEN Emitted("exited", <<>>)
       ELSE WithBuildScript(<<emit_filegroup(node), emit_cargo_manifest(node)>>
                                \o RulesOf(results),
                            node)

(***************************************************************************)
(* BUCK text.  A text is the sequence of its top-level statements; a       *)
(* statement is a call: the called function, the argument clauses in text  *)
(* order (name "" for a positional argument) and whether a comma follows   *)
(* the last clause.  ok is false for a text the parser rejects.  A value   *)
(* keeps its shape (string, list, dict, select(..) or list + select(..))   *)
(* and its contents.  A position inside a text is an argument clause of a  *)
(* statement.                                                              *)
(***************************************************************************)
Str(s) == [shape |-> "string", v |-> s]
List(S) == [shape |-> "list", v |-> S]
Dict(m) == [shape |-> "dict", v |-> m]
Concat(S, exprs) == [shape |-> "concat", v |-> S, appended |-> exprs]
SelectExpr(expr) == [shape |-> "select", v |-> expr]

Arg(name, value) == [name |-> name, value |-> value]

Call(func, args, comma) == [func |-> func, args |-> args, comma |-> comma]

Text(ok, stmts) == [exists |-> TRUE, ok |-> ok, stmts |-> stmts]

HasArg(call, name) == \E i \in DOMAIN call.args : call.args[i].name = name

ArgValue(call, name) ==
    call.args[CHOOSE i \in DOMAIN call.args : call.args[i].name = name].value

(***************************************************************************)
(* buck.rs, buckify/rules.rs: rendering.  serde_starlark writes the fields *)
(* of a struct in declaration order, a field marked skip_serializing_if    *)
(* only when it is not empty, and a comma after every clause.              *)
(***************************************************************************)
FieldOrder(kind) ==
    CASE kind \in RustRuleKinds ->
             <<"name", "env", "rustc_flags", "named_deps", "os_named_deps",
               "os_deps", "visibility", "deps">>
      [] kind = "buildscript_run" ->
             <<"name", "buildscript_rule", "env", "env_srcs", "visibility">>
      [] OTHER -> <<"name">>

Skipped(rule, f) ==
    CASE f \in SetFields -> rule[f] = {}
      [] f \in MapFields -> DOMAIN rule[f] = {}
      [] OTHER -> FALSE

FieldValue(rule, f) ==
    CASE f \in SetFields -> List(rule[f])
      [] f \in MapFields -> Dict(rule[f])
      [] OTHER -> Str(rule[f])

\* serde_starlark::to_string of one rule
to_string(rule) ==
    LET fields == SelectSeq(FieldOrder(rule.kind),
                            LAMBDA f : ~Skipped(rule, f))
    IN Call(rule.kind,
            [i \in DOMAIN fields |-> Arg(fields[i], FieldValue(rule, fields[i]))],
            TRUE)

Load(bzl, items) ==
    Call("load", <<Arg("", Str(bzl))>> \o [i \in DOMAIN items |-> Arg("", Str(items[i]))],
         TRUE)

\* a line of a text that is no statement: a comment or an empty line
Line(text) == [line |-> text]

\* the banner comment (its backquotes left out)
Banner == Line("# @generated by cargo buckal")

IsStatement(chunk) == "func" \in DOMAIN chunk

\* the rendering with both load statements written whatever the rules are
gen_buck_text_all_loads(rules) ==
    LET loads ==
            <<Load("@buckal//:cargo_manifest.bzl", <<"cargo_manifest">>),
              Load("@buckal//:wrapper.bzl",
                   <<"buildscript_run", "rust_binary", "rust_library",
                     "rust_test">>)>>
        content == [i \in DOMAIN rules |-> to_string(rules[i])]
    IN <<Banner>> \o loads \o <<Line("")>>
           \o content

\* the string gen_buck_content returns, as the sequence of its lines and
\* statements: the rules are joined first, then the empty line, the load
\* statements and the banner are inserted at position 0 in this order.  The
\* items of the wrapper load are a BTreeSet: they are written in ascending
\* order.
gen_buck_text(rules) ==
    LET has(kind) == \E i \in DOMAIN rules : rules[i].kind = kind
        wrapper_items ==
            SelectSeq(<<"buildscript_run", "rust_binary", "rust_library",
                        "rust_test">>, has)
        loads ==
            (IF has("cargo_manifest")
             THEN <<Load("@buckal//:cargo_manifest.bzl", <<"cargo_manifest">>)>>
             ELSE <<>>)
            \o (IF wrapper_items # <<>>
                THEN <<Load("@buckal//:wrapper.bzl", wrapper_items)>>
                ELSE <<>>)
        content == [i \in DOMAIN rules |-> to_string(rules[i])]
        with_newline == <<Line("")>> \o content
        with_loads == loads \o with_newline
    IN <<Banner>> \o with_loads

\* the text as the parser and the patchers see it: its statements
gen_buck_content(rules) ==
    Text(TRUE, SelectSeq(gen_buck_text(rules), IsStatement))

(***************************************************************************)
(* buck.rs: parse_buck_file runs the text as Python with one recording     *)
(* stub per rule function; the recorded calls are then read into a map     *)
(* keyed by the name of the function.                                      *)
(***************************************************************************)
StubFunctions ==
    {"rust_library", "rust_binary", "rust_test", "buildscript_run",
     "http_archive", "filegroup", "cargo_manifest"}

\* get_arg: the default when the argument is missing or is not of the
\* type of the field
get_arg(kwargs, f) ==
    LET shape == CASE f \in SetFields -> "list"
                   [] f \in MapFields -> "dict"
                   [] OTHER -> "string"
        default == CASE f \in SetFields -> {}
                     [] f \in MapFields -> EmptyMap
                     [] OTHER -> ""
    IN IF HasArg(kwargs, f) /\ ArgValue(kwargs, f).shape = shape
       THEN ArgValue(kwargs, f).v
       ELSE default

from_py_dict(kwargs) ==
    [kind |-> kwargs.func,
     name |-> get_arg(kwargs, "name"),
     buildscript_rule |-> get_arg(kwargs, "buildscript_rule"),
     env |-> get_arg(kwargs, "env"),
     env_srcs |-> get_arg(kwargs, "env_srcs"),
     rustc_flags |-> get_arg(kwargs, "rustc_flags"),
     visibility |-> get_arg(kwargs, "visibility"),
     deps |-> get_arg(kwargs, "deps"),
     named_deps |-> get_arg(kwargs, "named_deps"),
     os_deps |-> get_arg(kwargs, "os_deps"),
     os_named_deps |-> get_arg(kwargs, "os_named_deps")]

\* a list + a dict raises TypeError; a call of an undefined function
\* raises NameError
Runs(file) ==
    /\ file.ok
    /\ \A i \in DOMAIN file.stmts :
           /\ file.stmts[i].func \in StubFunctions \cup {"load"}
           /\ \A j \in DOMAIN file.stmts[i].args :
                  file.stmts[i].args[j].value.shape # "concat"

\* buck_rules.insert(func_name, rule) for every recorded call in order:
\* the last call of a function is the one the map keeps
parse_buck_file(file) ==
    IF ~Runs(file)
    THEN [ok |-> FALSE, rules |-> EmptyMap]
    ELSE LET calls == SelectSeq(file.stmts, LAMBDA c : c.func \in StubFunctions)
             funcs == {calls[i].func : i \in DOMAIN calls}
             last(func) == CHOOSE i \in DOMAIN calls :
                               /\ calls[i].func = func
                               /\ \A j \in DOMAIN calls :
                                      calls[j].func = func => j <= i
         IN [ok |-> TRUE,
             rules |-> [func \in funcs |-> from_py_dict(calls[last(func)])]]

(***************************************************************************)
(* buck.rs: merging the fields of an existing file into the new rules      *)
(***************************************************************************)
\* patch_map with the value of the existing file replacing the new one
patch_map_overwrite(dst, src) ==
    [k \in DOMAIN dst \cup DOMAIN src |-> IF k \in DOMAIN src THEN src[k] ELSE dst[k]]

\* dst.entry(k).or_insert_with(v) for every (k, v) of src
patch_map(dst, src) ==
    [k \in DOMAIN dst \cup DOMAIN src |-> IF k \in DOMAIN dst THEN dst[k] ELSE src[k]]

patch_set(dst, src) == dst \cup (src \ dst)

patch_deps_fields(patch_fields, dst, src) ==
    [dst EXCEPT
        !.deps = IF "deps" \in patch_fields THEN patch_set(@, src.deps) ELSE @,
        !.os_deps =
            IF "os_deps" \in patch_fields
            THEN [plat \in DOMAIN @ \cup DOMAIN src.os_deps |->
                     IF plat \in DOMAIN src.os_deps
                     THEN patch_set(MapGetOr(@, plat, {}), src.os_deps[plat])
                     ELSE @[plat]]
            ELSE @,
        !.named_deps =
            IF "named_deps" \in patch_fields THEN patch_map(@, src.named_deps)
            ELSE @,
        !.os_named_deps =
            IF "os_named_deps" \in patch_fields
            THEN [alias \in DOMAIN @ \cup DOMAIN src.os_named_deps |->
                     IF alias \in DOMAIN src.os_named_deps
                     THEN patch_map(MapGetOr(@, alias, EmptyMap),
                                    src.os_named_deps[alias])
                     ELSE @[alias]]
            ELSE @]

\* RustLibrary::patch_from, RustBinary::patch_from, RustTest::patch_from and
\* BuildscriptRun::patch_from
patch_from(self, other, patch_fields) ==
    LET patched ==
            [self EXCEPT
                !.env = IF "env" \in patch_fields THEN patch_map(@, other.env)
                        ELSE @,
                !.visibility =
                    IF "visibility" \in patch_fields
                    THEN patch_set(@, other.visibility) ELSE @]
    IN IF self.kind = "buildscript_run"
       THEN patched
       ELSE patch_deps_fields(patch_fields,
                [patched EXCEPT
                    !.rustc_flags =
                        IF "rustc_flags" \in patch_fields
                        THEN patch_set(@, other.rustc_flags) ELSE @],
                other)

\* the kinds patch_buck_rules matches; an archive, a file group and a
\* manifest are left as generated
PatchedKinds == RustRuleKinds \cup {"buildscript_run"}

patch_buck_rules(existing, to_patch, patch_fields) ==
    [i \in DOMAIN to_patch |->
        IF /\ to_patch[i].kind \in PatchedKinds
           /\ to_patch[i].kind \in DOMAIN existing
        THEN patch_from(to_patch[i], existing[to_patch[i].kind], patch_fields)
        ELSE to_patch[i]]

(***************************************************************************)
(* buckify/cross.rs: the target-compatibility clause of test rules         *)
(***************************************************************************)
CROSS_SELECT_EXPR ==
    SelectExpr("{\"//platforms:cross\": [\"config//:none\"], \"DEFAULT\": []}")

\* whether the last character before the closing parenthesis that is not
\* white space is no comma
needs_leading_comma(call) == call.args = <<>> \/ ~call.comma

\* find_rust_test_call of a statement: whether a position is returned
find_rust_test_call_every_test(call) == call.func = "rust_test"

find_rust_test_call(call) ==
    call.func = "rust_test" /\ ~HasArg(call, "target_compatible_with")

\* whether the clauses of a call stay separated by exactly one comma when a
\* clause is inserted before the closing parenthesis, with or without a
\* comma in front of it
WellSeparated(call, leading) ==
    IF call.args = <<>> THEN ~leading ELSE leading = ~call.comma

\* out.insert_str(pos, build_insert(..)) at the closing parenthesis of one
\* call: a comma first when one is needed, the clause, a comma after it
InsertClause(call) ==
    Call(call.func,
         Append(call.args, Arg("target_compatible_with", CROSS_SELECT_EXPR)),
         TRUE)

patch_rust_test_target_compatible_with(buck_content) ==
    IF ~buck_content.ok
    THEN buck_content
    ELSE LET insert_positions ==
                 {i \in DOMAIN buck_content.stmts :
                      find_rust_test_call(buck_content.stmts[i])}
         IN Text(\A i \in insert_positions :
                     WellSeparated(buck_content.stmts[i],
                                   needs_leading_comma(buck_content.stmts[i])),
                 [i \in DOMAIN buck_content.stmts |->
                     IF i \in insert_positions
                     THEN InsertClause(buck_content.stmts[i])
                     ELSE buck_content.stmts[i]])

(***************************************************************************)
(* SpecGen: the regeneration of the BUCK file of one node, as apply and    *)
(* regenerate_node_buck do it: emit the rules, merge the existing file     *)
(* into them, render, patch the test rules, write.  Between two            *)
(* regenerations the user edits the file by hand.                          *)
(***************************************************************************)
\* edits the user makes by hand to the file of the node
MaxHandEdits == 1

GenNode(name, first_party, libs, bins, tests, lib_test, ignore_tests, build, deps) ==
    [name |-> name, first_party |-> first_party, libs |-> libs, bins |-> bins,
     tests |-> tests, lib_test |-> lib_test, ignore_tests |-> ignore_tests,
     build |-> build, deps |-> deps]

\* the edges of the node: none, a normal one, a build one, and a normal one
\* to a first-party package without a library target
GenDeps ==
    {<<>>,
     <<NodeDep("serde", SerdeId1, <<DepKindInfo("Normal", NoTarget)>>)>>,
     <<NodeDep("serde", SerdeId1, <<DepKindInfo("Build", NoTarget)>>)>>,
     <<NodeDep("no_lib", NoLibId, <<DepKindInfo("Normal", NoTarget)>>)>>}

\* third-party nodes: with and without a library target, with and without
\* a build script; ignore_tests is a setting the emitter of a third-party
\* node does not read
ThirdPartyNodes ==
    {GenNode("foo", FALSE, <<"foo">>, <<>>, <<>>, FALSE, TRUE, build, deps) :
        build \in {"", "build-script-build", "build-script-main"},
        deps \in GenDeps}
    \cup {GenNode("foo", FALSE, <<>>, <<>>, <<>>, FALSE, TRUE, "", <<>>)}

\* first-party nodes: a package has at most one library target
FirstPartyNodes ==
    {n \in {GenNode("mylib", TRUE, libs, bins, t.tests, t.lib_test,
                    t.ignore_tests, build, deps) :
                libs \in {<<>>, <<"mylib">>},
                bins \in {<<>>, <<"mylib">>, <<"tool", "mylib">>},
                t \in {[tests |-> <<>>, lib_test |-> FALSE, ignore_tests |-> TRUE],
                       [tests |-> <<"it">>, lib_test |-> TRUE,
                        ignore_tests |-> FALSE]},
                build \in {"", "build-script-build"},
                deps \in {<<>>,
                          <<NodeDep("serde", SerdeId1,
                                    <<DepKindInfo("Build", NoTarget)>>)>>}} :
        n.build # "" \/ n.deps = <<>>}

GenNodes == ThirdPartyNodes \cup FirstPartyNodes

\* the names a repository configures in patch_fields
PatchFieldNames == {"deps", "env"}

\* what a hand edit adds to a field
ManualEntry(f) ==
    IF f = "env" THEN <<"MANUAL", "1">> ELSE "//manual:dep"

InitGen ==
    /\ gen_node \in GenNodes
    /\ gen_fields \in SUBSET PatchFieldNames
    /\ gen_no_merge \in BOOLEAN
    /\ gen_no_merge => gen_fields = PatchFieldNames
    /\ gen_file = NoFile
    /\ gen_prev = NoFile
    /\ gen_rules = <<>>
    /\ gen_noop = <<>>
    /\ gen_pc = "start"
    /\ gen_added = {}
    /\ FpIdle
    /\ DiffIdle
    /\ CmdIdle
    /\ DepsIdle
    /\ PatchIdle
    /\ DagIdle
    /\ RenIdle
    /\ LabIdle
    /\ CfgIdle

GenFrame == UNCHANGED <<fpVars, diffVars, cmdVars, depVars, patchVars, cfgVars, dagVars, renVars, labVars>>

Emit(emitted) ==
    /\ gen_rules' = emitted.rules
    /\ gen_pc' = IF emitted.status = "ok" THEN "emitted" ELSE emitted.status
    /\ UNCHANGED <<gen_node, gen_fields, gen_no_merge, gen_file, gen_prev,
                   gen_noop, gen_added>>
    /\ GenFrame

\* the emission of a node with the BUCK file created before, not after
BuckifyDepNodeCreateFirst ==
    /\ gen_pc = "start"
    /\ ~gen_node.first_party
    /\ gen_rules' = buckify_dep_node(gen_node).rules
    /\ gen_pc' = IF buckify_dep_node(gen_node).status = "ok"
                 THEN "emitted"
                 ELSE buckify_dep_node(gen_node).status
    /\ gen_file' = IF gen_file.exists THEN gen_file ELSE Text(TRUE, <<>>)
    /\ UNCHANGED <<gen_node, gen_fields, gen_no_merge, gen_prev, gen_noop,
                   gen_added>>
    /\ GenFrame

BuckifyDepNode ==
    /\ gen_pc = "start"
    /\ ~gen_node.first_party
    /\ Emit(buckify_dep_node(gen_node))

BuckifyRootNode ==
    /\ gen_pc = "start"
    /\ gen_node.first_party
    /\ Emit(buckify_root_node(gen_node))

\* parse_buck_file(..).expect(..) and patch_buck_rules
merge(existing, new_rules, patch_fields) ==
    LET existing_rules == parse_buck_file(existing)
    IN IF existing_rules.ok
       THEN [ok |-> TRUE,
             rules |-> patch_buck_rules(existing_rules.rules, new_rules,
                                        patch_fields)]
       ELSE [ok |-> FALSE, rules |-> new_rules]

\* the merge of the new rules with their own rendering
MergeRendered ==
    /\ gen_pc = "emitted"
    /\ gen_noop' = <<merge(gen_buck_content(gen_rules), gen_rules, gen_fields)>>
    /\ gen_pc' = "rendered"
    /\ UNCHANGED <<gen_node, gen_fields, gen_no_merge, gen_file, gen_prev,
                   gen_rules, gen_added>>
    /\ GenFrame

\* `if buck_path.exists() { if !ctx.no_merge && !patch_fields.is_empty() {..} }
\*  else { File::create(&buck_path) }`
Merge ==
    /\ gen_pc = "emitted"
    /\ IF gen_file.exists
       THEN IF ~gen_no_merge /\ gen_fields # {}
            THEN LET m == merge(gen_file, gen_rules, gen_fields)
                 IN /\ gen_rules' = m.rules
                    /\ gen_pc' = IF m.ok THEN "merged" ELSE "panicked"
                    /\ UNCHANGED gen_file
            ELSE /\ gen_pc' = "merged"
                 /\ UNCHANGED <<gen_rules, gen_file>>
       ELSE /\ gen_file' = Text(TRUE, <<>>)
            /\ gen_pc' = "merged"
            /\ UNCHANGED gen_rules
    /\ UNCHANGED <<gen_node, gen_fields, gen_no_merge, gen_prev, gen_noop,
                   gen_added>>
    /\ GenFrame

\* gen_buck_content, the cross patch, std::fs::write
Write ==
    /\ gen_pc = "merged"
    /\ gen_prev' = gen_file
    /\ gen_file' = patch_rust_test_target_compatible_with(gen_buck_content(gen_rules))
    /\ gen_pc' = "written"
    /\ UNCHANGED <<gen_node, gen_fields, gen_no_merge, gen_rules, gen_noop,
                   gen_added>>
    /\ GenFrame

\* the next run of the tool on the node
Rerun ==
    /\ gen_pc = "written"
    /\ gen_pc' = "start"
    /\ gen_rules' = <<>>
    /\ gen_prev' = NoFile
    /\ UNCHANGED <<gen_node, gen_fields, gen_no_merge, gen_file, gen_noop,
                   gen_added>>
    /\ GenFrame

HasEntry(call, f, entry) ==
    /\ HasArg(call, f)
    /\ IF ArgValue(call, f).shape = "dict"
       THEN /\ entry[1] \in DOMAIN ArgValue(call, f).v
            /\ ArgValue(call, f).v[entry[1]] = entry[2]
       ELSE ArgValue(call, f).shape = "list" /\ entry \in ArgValue(call, f).v

WithEntry(value, entry) ==
    IF value.shape = "dict"
    THEN Dict(MapPut(value.v, entry[1], entry[2]))
    ELSE List(value.v \cup {entry})

\* a call with an entry added to a collection argument, the clause written
\* anew after the last one when the call has none
AddEntry(call, f, entry) ==
    IF HasArg(call, f)
    THEN [call EXCEPT !.args =
             [j \in DOMAIN call.args |->
                 IF call.args[j].name = f
                 THEN Arg(f, WithEntry(call.args[j].value, entry))
                 ELSE call.args[j]]]
    ELSE [call EXCEPT !.args =
             Append(call.args,
                    Arg(f, IF f \in MapFields
                           THEN Dict(MapPut(EmptyMap, entry[1], entry[2]))
                           ELSE List({entry})))]

\* one edit by hand: an entry added to a field of a rule, the value of a
\* key of a field of a rule changed, or the file broken
HandEdited(what, kind, name, field) ==
    [what |-> what, kind |-> kind, name |-> name, field |-> field]

\* the user adds an entry to a collection field of a rule of the file
HandEdit ==
    /\ gen_pc = "written"
    /\ gen_file.ok
    /\ Cardinality(gen_added) < MaxHandEdits
    /\ \E i \in DOMAIN gen_file.stmts, f \in PatchFieldNames :
          LET call == gen_file.stmts[i]
          IN /\ call.func \in PatchedKinds
             /\ f \in Range(FieldOrder(call.func))
             /\ ~HasEntry(call, f, ManualEntry(f))
             /\ gen_file' = [gen_file EXCEPT !.stmts[i] =
                                AddEntry(call, f, ManualEntry(f))]
             /\ gen_added' = gen_added \cup
                    {HandEdited("added", call.func, get_arg(call, "name"), f)}
    /\ UNCHANGED <<gen_node, gen_fields, gen_no_merge, gen_prev, gen_rules,
                   gen_noop, gen_pc>>
    /\ GenFrame

\* the user changes the value the file gives to OUT_DIR in the env of a rule
HandChange ==
    /\ gen_pc = "written"
    /\ gen_file.ok
    /\ Cardinality(gen_added) < MaxHandEdits
    /\ \E i \in DOMAIN gen_file.stmts :
          LET call == gen_file.stmts[i]
          IN /\ call.func \in PatchedKinds
             /\ HasArg(call, "env")
             /\ "OUT_DIR" \in DOMAIN ArgValue(call, "env").v
             /\ ArgValue(call, "env").v["OUT_DIR"] # "manual"
             /\ gen_file' = [gen_file EXCEPT !.stmts[i] =
                                AddEntry(call, "env", <<"OUT_DIR", "manual">>)]
             /\ gen_added' = gen_added \cup
                    {HandEdited("changed", call.func, get_arg(call, "name"), "env")}
    /\ UNCHANGED <<gen_node, gen_fields, gen_no_merge, gen_prev, gen_rules,
                   gen_noop, gen_pc>>
    /\ GenFrame

\* the user leaves the file in a state Python does not run
Corrupt ==
    /\ gen_pc = "written"
    /\ gen_file.ok
    /\ Cardinality(gen_added) < MaxHandEdits
    /\ gen_file' = [gen_file EXCEPT !.ok = FALSE]
    /\ gen_added' = gen_added \cup {HandEdited("broken", "", "", "")}
    /\ UNCHANGED <<gen_node, gen_fields, gen_no_merge, gen_prev, gen_rules,
                   gen_noop, gen_pc>>
    /\ GenFrame

NextGen ==
    \/ BuckifyDepNode
    \/ BuckifyRootNode
    \/ MergeRendered
    \/ Merge
    \/ Write
    \/ Rerun
    \/ HandEdit
    \/ HandChange
    \/ Corrupt

SpecGen == InitGen /\ [][NextGen]_vars

RulesOfKind(rules, kind) == SelectSeq(rules, LAMBDA r : r.kind = kind)

KindsOf(rules) == [i \in DOMAIN rules |-> rules[i].kind]

\* C11: a third-party node with a build script target is emitted as exactly
\* five rules in the order archive fetch, manifest, library, build script
\* binary, build script run; the OUT_DIR of the library's env is the output
\* directory of that run rule and its compiler flags hold the flags the run
\* rule emits; a third-party node without a build script is emitted as
\* exactly the first three rules.
C11_DepNodeRules ==
    (gen_pc = "emitted" /\ ~gen_node.first_party) =>
        IF gen_node.build # ""
        THEN /\ KindsOf(gen_rules) =
                    <<"http_archive", "cargo_manifest", "rust_library",
                      "rust_binary", "buildscript_run">>
             /\ gen_rules[5].buildscript_rule = ":" \o gen_rules[4].name
             /\ "OUT_DIR" \in DOMAIN gen_rules[3].env
             /\ gen_rules[3].env["OUT_DIR"] =
                    "$(location :" \o gen_rules[5].name \o "[out_dir])"
             /\ ("@$(location :" \o gen_rules[5].name \o "[rustc_flags])")
                    \in gen_rules[3].rustc_flags
        ELSE KindsOf(gen_rules) =
                 <<"http_archive", "cargo_manifest", "rust_library">>

C11_Witness ==
    /\ gen_pc = "emitted"
    /\ ~gen_node.first_party
    /\ gen_node.build = "build-script-build"
    /\ Len(gen_rules) = 5
    /\ gen_rules[5].name = "foo-build-script-run"

\* C12: a first-party node with a library and a binary of one name N is
\* emitted with a binary rule named N, a library rule named libN and ":libN"
\* among the unconditional deps of that binary; a library no binary shares
\* its name with is emitted under its own name.
C12_RootNodeNames ==
    (gen_pc = "emitted" /\ gen_node.first_party) =>
        \A li \in DOMAIN gen_node.libs :
            LET N == gen_node.libs[li]
                libraries == RulesOfKind(gen_rules, "rust_library")
                binaries == RulesOfKind(gen_rules, "rust_binary")
            IN IF N \in Range(gen_node.bins)
               THEN /\ libraries[li].name = "lib" \o N
                    /\ \E b \in DOMAIN binaries :
                           /\ binaries[b].name = N
                           /\ (":lib" \o N) \in binaries[b].deps
               ELSE libraries[li].name = N

C12_Witness ==
    /\ gen_pc = "emitted"
    /\ gen_node.first_party
    /\ gen_node.libs = <<"mylib">>
    /\ "mylib" \in Range(gen_node.bins)
    /\ \E i \in DOMAIN gen_rules :
           gen_rules[i].kind = "rust_library" /\ gen_rules[i].name = "libmylib"

\* the rules as buckify emits them for the node, before any merge
Fresh ==
    IF gen_node.first_party
    THEN buckify_root_node(gen_node).rules
    ELSE buckify_dep_node(gen_node).rules

\* C13: for every rule list emission produces and every set of mergeable
\* field names, merging the rule list with the text rendered from that
\* same rule list returns the rule list unchanged.
C13_MergeRenderedNoop ==
    gen_pc = "rendered" =>
        /\ gen_noop[1].ok
        /\ gen_noop[1].rules = gen_rules

\* whether a rule of a file, found by kind and name, holds the entry a hand
\* edit added to one of its fields
InFile(file, a) ==
    \E i \in DOMAIN file.stmts :
        /\ file.stmts[i].func = a.kind
        /\ get_arg(file.stmts[i], "name") = a.name
        /\ HasEntry(file.stmts[i], a.field, ManualEntry(a.field))

\* C14: whenever the file of a node is regenerated while a previous file
\* exists, merging is enabled and a collection field is configured as
\* mergeable, every entry the user added by hand to that field of a rule of
\* the previous file is in that same rule of the newly written file.
C14_HandEntriesSurvive ==
    (gen_pc = "written" /\ ~gen_no_merge) =>
        \A a \in gen_added :
            (a.what = "added" /\ a.field \in gen_fields /\ InFile(gen_prev, a))
                => InFile(gen_file, a)

\* a merged rule against the generated one: a field outside the mergeable
\* set is as generated, a set keeps every generated member, a map keeps
\* every generated key with its generated value (per platform the
\* generated members for os_deps, per alias and platform the generated
\* label for os_named_deps)
KeepsGenerated(merged, generated, patch_fields) ==
    /\ merged.kind = generated.kind
    /\ \A f \in ScalarFields : merged[f] = generated[f]
    /\ \A f \in SetFields \cup MapFields :
           f \notin patch_fields => merged[f] = generated[f]
    /\ \A f \in SetFields : generated[f] \subseteq merged[f]
    /\ \A f \in {"env", "named_deps"} :
           \A k \in DOMAIN generated[f] :
               k \in DOMAIN merged[f] /\ merged[f][k] = generated[f][k]
    /\ \A plat \in DOMAIN generated.os_deps :
           /\ plat \in DOMAIN merged.os_deps
           /\ generated.os_deps[plat] \subseteq merged.os_deps[plat]
    /\ \A alias \in DOMAIN generated.os_named_deps :
           /\ alias \in DOMAIN merged.os_named_deps
           /\ \A plat \in DOMAIN generated.os_named_deps[alias] :
                  /\ plat \in DOMAIN merged.os_named_deps[alias]
                  /\ merged.os_named_deps[alias][plat] =
                         generated.os_named_deps[alias][plat]

\* C15: the merge changes only the fields named in the configured mergeable
\* set, every other field keeping its freshly generated value; no generated
\* entry of a merged collection is removed; where the existing file and the
\* generated rule give one map key different values, the generated value
\* is kept.
C15_MergeKeepsGenerated ==
    gen_pc = "merged" =>
        /\ Len(gen_rules) = Len(Fresh)
        /\ \A i \in DOMAIN gen_rules :
               KeepsGenerated(gen_rules[i], Fresh[i],
                              IF gen_no_merge THEN {} ELSE gen_fields)

\* a merge took place with the existing file giving OUT_DIR another value
\* than the generated rule of its kind
C15_Witness ==
    /\ gen_pc = "merged"
    /\ ~gen_no_merge
    /\ "env" \in gen_fields
    /\ parse_buck_file(gen_file).ok
    /\ \E i \in DOMAIN gen_rules :
           /\ gen_rules[i].kind \in DOMAIN parse_buck_file(gen_file).rules
           /\ "OUT_DIR" \in DOMAIN gen_rules[i].env
           /\ "OUT_DIR" \in
                  DOMAIN parse_buck_file(gen_file).rules[gen_rules[i].kind].env
           /\ parse_buck_file(gen_file).rules[gen_rules[i].kind].env["OUT_DIR"]
                  = "manual"
           /\ gen_rules[i].env["OUT_DIR"] # "manual"

\* C16: if the existing file cannot be parsed when the merge reads it, the
\* regeneration goes on without merging and the process does not crash.
C16_UnparsableFallsBack ==
    [][(/\ gen_pc = "emitted"
        /\ gen_pc' \notin {"emitted", "rendered"}
        /\ gen_file.exists
        /\ ~parse_buck_file(gen_file).ok)
       => (gen_pc' = "merged" /\ gen_rules' = gen_rules)]_vars

(***************************************************************************)
(* buckify/windows.rs: the compiler-flags patch of one rule                *)
(***************************************************************************)
\* the rendering of render_windows_rustc_flags_select for one gnu flag
WINDOWS_SELECT_EXPR ==
    SelectExpr("{\"prelude//os/constraints:windows\": select({\"prelude//abi/constraints:gnu\": [\"@gnu\"], \"DEFAULT\": []}), \"DEFAULT\": []}")

\* find_rustc_flags_in_call with any value of rustc_flags taken for a list
find_rustc_flags_in_call_any_value(call, target_name) ==
    /\ HasArg(call, "name")
    /\ ArgValue(call, "name").shape = "string"
    /\ ArgValue(call, "name").v = target_name
    /\ HasArg(call, "rustc_flags")

\* whether the name argument is the string target_name and the value of
\* rustc_flags is a list expression, whose end is then the position
find_rustc_flags_in_call(call, target_name) ==
    /\ HasArg(call, "name")
    /\ ArgValue(call, "name").shape = "string"
    /\ ArgValue(call, "name").v = target_name
    /\ HasArg(call, "rustc_flags")
    /\ ArgValue(call, "rustc_flags").shape = "list"

find_in_expr(call, rule_name, target_name) ==
    call.func = rule_name /\ find_rustc_flags_in_call(call, target_name)

\* the first statement a position is found in; 0 is None
find_rustc_flags_end_in_rule(stmts, rule_name, target_name) ==
    LET found == {i \in DOMAIN stmts : find_in_expr(stmts[i], rule_name, target_name)}
    IN IF found = {} THEN 0
       ELSE CHOOSE i \in found : \A j \in found : i <= j

\* the text with " + " and the expression written after the value
AppendExpr(value, expr) ==
    IF value.shape = "list"
    THEN Concat(value.v, <<expr>>)
    ELSE Concat(value.v, Append(value.appended, expr))

\* the patch writing a rustc_flags clause when the rule has none
apply_rustc_flags_patch_to_content_or_insert(buck_content, rule_name, bin_name, select_expr) ==
    IF ~buck_content.ok
    THEN buck_content
    ELSE LET named == {i \in DOMAIN buck_content.stmts :
                          /\ buck_content.stmts[i].func = rule_name
                          /\ HasArg(buck_content.stmts[i], "name")
                          /\ ArgValue(buck_content.stmts[i], "name").v = bin_name}
         IN [buck_content EXCEPT !.stmts =
                [i \in DOMAIN buck_content.stmts |->
                    IF i \in named
                    THEN IF HasArg(buck_content.stmts[i], "rustc_flags")
                         THEN [buck_content.stmts[i] EXCEPT !.args =
                                  [j \in DOMAIN @ |->
                                      IF @[j].name = "rustc_flags"
                                      THEN Arg("rustc_flags",
                                               AppendExpr(@[j].value, select_expr))
                                      ELSE @[j]]]
                         ELSE [buck_content.stmts[i] EXCEPT !.args =
                                  Append(@, Arg("rustc_flags",
                                                Concat({}, <<select_expr>>)))]
                    ELSE buck_content.stmts[i]]]

apply_rustc_flags_patch_to_content(buck_content, rule_name, bin_name, select_expr) ==
    IF ~buck_content.ok
    THEN buck_content
    ELSE LET insert_pos ==
                 find_rustc_flags_end_in_rule(buck_content.stmts, rule_name, bin_name)
         IN IF insert_pos = 0
            THEN buck_content
            ELSE [buck_content EXCEPT !.stmts[insert_pos].args =
                     [j \in DOMAIN @ |->
                         IF @[j].name = "rustc_flags"
                         THEN Arg("rustc_flags", AppendExpr(@[j].value, select_expr))
                         ELSE @[j]]]

(***************************************************************************)
(* SpecPatch: the two patchers applied, one after the other, to a text     *)
(***************************************************************************)
MaxStmts == 2
MaxPatches == 2

\* a rule as a statement of a text: its rustc_flags absent ("none"), a list
\* or a list with an expression appended ("concat"), with or without a
\* target_compatible_with clause, with or without a comma after the last
\* clause
PatchStmt(func, name, flags, tcw, comma) ==
    Call(func,
         <<Arg("name", Str(name))>>
         \o (CASE flags = "list" -> <<Arg("rustc_flags", List({"-Cflag"}))>>
               [] flags = "concat" ->
                      <<Arg("rustc_flags",
                            Concat({"-Cflag"}, <<WINDOWS_SELECT_EXPR>>))>>
               [] OTHER -> <<>>)
         \o (IF tcw
             THEN <<Arg("target_compatible_with", CROSS_SELECT_EXPR)>>
             ELSE <<>>),
         comma)

PatchStmts ==
    {PatchStmt("rust_test", "a", "list", FALSE, TRUE),
     PatchStmt("rust_test", "a", "list", FALSE, FALSE),
     PatchStmt("rust_test", "a", "concat", TRUE, TRUE),
     PatchStmt("rust_test", "b", "none", FALSE, TRUE),
     PatchStmt("rust_test", "b", "list", TRUE, TRUE),
     PatchStmt("rust_binary", "a", "list", FALSE, TRUE),
     PatchStmt("rust_binary", "a", "concat", FALSE, TRUE),
     PatchStmt("rust_binary", "b", "list", FALSE, TRUE),
     PatchStmt("rust_binary", "b", "none", FALSE, TRUE),
     PatchStmt("rust_library", "a", "list", FALSE, TRUE)}

\* a rule is named once in a file
UniqueNames(stmts) ==
    \A i, j \in DOMAIN stmts :
        (i # j /\ stmts[i].func = stmts[j].func)
            => ArgValue(stmts[i], "name") # ArgValue(stmts[j], "name")

\* texts the parser accepts and texts it rejects
PatchTexts ==
    {Text(ok, stmts) : ok \in BOOLEAN,
                       stmts \in {s \in SeqsUpTo(PatchStmts, MaxStmts) :
                                      UniqueNames(s)}}

PatchRuleNames == {"rust_binary", "rust_test"}
PatchTargetNames == {"a", "b"}

Patched(fn, rule_name, target_name) ==
    [fn |-> fn, rule_name |-> rule_name, target_name |-> target_name]

InitPatch ==
    /\ patch_text \in PatchTexts
    /\ patch_prev = NoFile
    /\ patch_last = NoPatch
    /\ patch_count = 0
    /\ FpIdle
    /\ DiffIdle
    /\ CmdIdle
    /\ DepsIdle
    /\ GenIdle
    /\ DagIdle
    /\ RenIdle
    /\ LabIdle
    /\ CfgIdle

PatchFrame == UNCHANGED <<fpVars, diffVars, cmdVars, depVars, genVars, cfgVars, dagVars, renVars, labVars>>

PatchCross ==
    /\ patch_count < MaxPatches
    /\ patch_prev' = patch_text
    /\ patch_text' = patch_rust_test_target_compatible_with(patch_text)
    /\ patch_last' = Patched("cross", "rust_test", "")
    /\ patch_count' = patch_count + 1
    /\ PatchFrame

PatchWindows ==
    /\ patch_count < MaxPatches
    /\ \E rule_name \in PatchRuleNames, target_name \in PatchTargetNames :
          /\ patch_text' = apply_rustc_flags_patch_to_content(
                               patch_text, rule_name, target_name,
                               WINDOWS_SELECT_EXPR)
          /\ patch_last' = Patched("windows", rule_name, target_name)
    /\ patch_prev' = patch_text
    /\ patch_count' = patch_count + 1
    /\ PatchFrame

NextPatch == PatchCross \/ PatchWindows

SpecPatch == InitPatch /\ [][NextPatch]_vars

\* the statements a patch is aimed at: for the target-compatibility patch
\* the test rules without the clause, for the compiler-flags patch the rule
\* of the given kind and name
Targeted(call, patch) ==
    IF patch.fn = "cross"
    THEN call.func = "rust_test" /\ ~HasArg(call, "target_compatible_with")
    ELSE /\ call.func = patch.rule_name
         /\ ArgValue(call, "name") = Str(patch.target_name)

\* C17: a patch changes text only inside the calls it targets: a test rule
\* that already has a target_compatible_with clause, and every rule other
\* than the one selected by kind and name for the compiler-flags patch, is
\* the same before and after, and no statement is added or removed.
C17_PatchFrame ==
    patch_count > 0 =>
        /\ patch_text.ok = patch_prev.ok
        /\ Len(patch_text.stmts) = Len(patch_prev.stmts)
        /\ \A i \in DOMAIN patch_prev.stmts :
              ~Targeted(patch_prev.stmts[i], patch_last)
                  => patch_text.stmts[i] = patch_prev.stmts[i]

\* the target-compatibility patch changed a text that holds a test rule
\* with the clause next to one without it
C17_Witness ==
    /\ patch_count > 0
    /\ patch_last.fn = "cross"
    /\ patch_text # patch_prev
    /\ \E i \in DOMAIN patch_prev.stmts :
          /\ patch_prev.stmts[i].func = "rust_test"
          /\ HasArg(patch_prev.stmts[i], "target_compatible_with")

\* how many clauses of a name a call has
ClauseCount(call, name) ==
    Cardinality({j \in DOMAIN call.args : call.args[j].name = name})

\* whether the text already holds the clause of the patch on every
\* attribute the patch is aimed at
HasPatchClause(text, patch) ==
    IF patch.fn = "cross"
    THEN \A i \in DOMAIN text.stmts :
            text.stmts[i].func = "rust_test"
                => HasArg(text.stmts[i], "target_compatible_with")
    ELSE \E i \in DOMAIN text.stmts :
            /\ text.stmts[i].func = patch.rule_name
            /\ ArgValue(text.stmts[i], "name") = Str(patch.target_name)
            /\ HasArg(text.stmts[i], "rustc_flags")
            /\ ArgValue(text.stmts[i], "rustc_flags").shape = "concat"

\* C18: a patch is never appended twice: a patch applied to a text that
\* already holds its clause on the target attribute returns the text as it
\* was, so no rule ever has two target_compatible_with clauses or two
\* expressions appended to its rustc_flags.
C18_NeverAppendedTwice ==
    /\ patch_count > 0 /\ HasPatchClause(patch_prev, patch_last)
           => patch_text = patch_prev
    /\ \A i \in DOMAIN patch_text.stmts :
          /\ ClauseCount(patch_text.stmts[i], "target_compatible_with") <= 1
          /\ (/\ HasArg(patch_text.stmts[i], "rustc_flags")
              /\ ArgValue(patch_text.stmts[i], "rustc_flags").shape = "concat")
                 => Len(ArgValue(patch_text.stmts[i], "rustc_flags").appended) = 1

\* the compiler-flags patch applied a second time to the rule it changed
C18_Witness ==
    /\ patch_count = 2
    /\ patch_last.fn = "windows"
    /\ patch_prev.ok
    /\ HasPatchClause(patch_prev, patch_last)
    /\ \E i \in DOMAIN patch_prev.stmts :
          /\ Targeted(patch_prev.stmts[i], patch_last)
          /\ ArgValue(patch_prev.stmts[i], "rustc_flags")
                 = Concat({"-Cflag"}, <<WINDOWS_SELECT_EXPR>>)

\* whether the patch finds nothing to change: the target rule is not in the
\* text, or it has no rustc_flags attribute
NotFound(text, patch) ==
    IF patch.fn = "cross"
    THEN \A i \in DOMAIN text.stmts : text.stmts[i].func # "rust_test"
    ELSE \A i \in DOMAIN text.stmts :
            Targeted(text.stmts[i], patch)
                => ~HasArg(text.stmts[i], "rustc_flags")

\* C19: when the text does not parse, or the target rule or the target
\* attribute is not found, a patch function returns its input unchanged;
\* it has no other outcome than a text.
C19_BestEffort ==
    patch_count > 0 =>
        /\ patch_text.exists
        /\ (~patch_prev.ok \/ NotFound(patch_prev, patch_last))
               => patch_text = patch_prev

\* the compiler-flags patch aimed at a rule that is in the text and has no
\* rustc_flags attribute
C19_Witness ==
    /\ patch_count > 0
    /\ patch_last.fn = "windows"
    /\ patch_prev.ok
    /\ \E i \in DOMAIN patch_prev.stmts :
          /\ Targeted(patch_prev.stmts[i], patch_last)
          /\ ~HasArg(patch_prev.stmts[i], "rustc_flags")
    /\ patch_text = patch_prev

(***************************************************************************)
(* platform.rs: the cache of the cfg values of the supported triples.      *)
(* CFG_CACHE is a OnceLock: cfg_once is its state, and a caller of         *)
(* get_or_init reads it, runs the closure or waits for the closure another *)
(* caller runs.  The closure spawns one thread a triple and joins them     *)
(* all.  A Vec<Cfg> is the name of where it came from.                     *)
(***************************************************************************)
MaxCallers == 2
MaxLookups == 2

\* the triples of SUPPORTED_TARGETS
SupportedTriples == {SUPPORTED_TARGETS[i][2] : i \in DOMAIN SUPPORTED_TARGETS}

Some(cfgs) == [some |-> TRUE, cfgs |-> cfgs]
NoCfgs == [some |-> FALSE, cfgs |-> ""]

\* the triples the function has built-in cfgs for
FallbackTriples == SupportedTriples \cup {"x86_64-apple-darwin"}

fallback_cfgs_for_triple(triple) ==
    IF triple \in FallbackTriples THEN Some("fallback") ELSE NoCfgs

\* rustc prints the cfgs of a triple whose target is installed; a failure
\* to run it, or its failure, falls back to the built-in cfgs
get_rustc_cfgs_for_triple(triple, installed) ==
    IF triple \in installed
    THEN Some("rustc")
    ELSE fallback_cfgs_for_triple(triple)

\* get_or_init running the closure whenever the cell holds no value yet
get_or_init_unsynchronized(once) ==
    IF once = "complete" THEN "read" ELSE "run"

\* what OnceLock::get_or_init does for a caller: read the value, run the
\* closure, or block until the caller running the closure has set the value
get_or_init(once) ==
    CASE once = "complete" -> "read"
      [] once = "incomplete" -> "run"
      [] OTHER -> "wait"

\* the map the closure builds from the results of the threads it joined
CfgMap(results) ==
    [triple \in {t \in DOMAIN results : results[t].some} |->
        results[triple].cfgs]

NoResults == [triple \in {} |-> NoCfgs]

Callers == 1..MaxCallers

Caller(at, ran, waited, seen) ==
    [pc |-> at, ran |-> ran, waited |-> waited, seen |-> seen]

\* the toolchains rustc has targets installed for
InstalledChoices ==
    {{}, {"x86_64-unknown-linux-gnu"}, SupportedTriples}

InitCfg ==
    /\ cfg_installed \in InstalledChoices
    /\ cfg_once = "incomplete"
    /\ cfg_results = [c \in Callers |-> NoResults]
    /\ cfg_queries = [triple \in SupportedTriples |-> 0]
    /\ CFG_CACHE = NoResults
    /\ cfg_callers = [c \in Callers |-> Caller("idle", FALSE, FALSE, <<>>)]
    /\ FpIdle
    /\ DiffIdle
    /\ CmdIdle
    /\ DepsIdle
    /\ GenIdle
    /\ DagIdle
    /\ RenIdle
    /\ LabIdle
    /\ PatchIdle

CfgFrame == UNCHANGED <<fpVars, diffVars, cmdVars, depVars, genVars, patchVars, dagVars, renVars, labVars>>

\* a caller enters cfg_cache()
CfgCache(c) ==
    /\ cfg_callers[c].pc = "idle"
    /\ Len(cfg_callers[c].seen) < MaxLookups
    /\ LET todo == get_or_init(cfg_once)
       IN CASE todo = "read" ->
                  /\ cfg_callers' = [cfg_callers EXCEPT
                                        ![c].seen = Append(@, CFG_CACHE)]
                  /\ UNCHANGED <<cfg_once, cfg_results>>
            [] todo = "run" ->
                  /\ cfg_once' = "running"
                  /\ cfg_results' = [cfg_results EXCEPT ![c] = NoResults]
                  /\ cfg_callers' = [cfg_callers EXCEPT
                                        ![c].pc = "initialising",
                                        ![c].ran = TRUE]
            [] OTHER ->
                  /\ cfg_callers' = [cfg_callers EXCEPT
                                        ![c].pc = "blocked",
                                        ![c].waited = TRUE]
                  /\ UNCHANGED <<cfg_once, cfg_results>>
    /\ UNCHANGED <<cfg_installed, cfg_queries, CFG_CACHE>>
    /\ CfgFrame

\* the thread spawned for a triple by the closure caller c runs
QueryTriple(c, triple) ==
    /\ cfg_callers[c].pc = "initialising"
    /\ triple \notin DOMAIN cfg_results[c]
    /\ cfg_queries' = [cfg_queries EXCEPT ![triple] = @ + 1]
    /\ cfg_results' = [cfg_results EXCEPT ![c] =
           [t \in DOMAIN @ \cup {triple} |->
               IF t = triple
               THEN get_rustc_cfgs_for_triple(triple, cfg_installed)
               ELSE @[t]]]
    /\ UNCHANGED <<cfg_installed, cfg_once, CFG_CACHE, cfg_callers>>
    /\ CfgFrame

\* every thread is joined: the closure returns the map, the cell is set
\* unless it holds a value, and the caller gets the value of the cell
Populate(c) ==
    /\ cfg_callers[c].pc = "initialising"
    /\ DOMAIN cfg_results[c] = SupportedTriples
    /\ CFG_CACHE' = IF cfg_once = "complete"
                    THEN CFG_CACHE
                    ELSE CfgMap(cfg_results[c])
    /\ cfg_once' = "complete"
    /\ cfg_callers' = [cfg_callers EXCEPT
                          ![c].pc = "idle",
                          ![c].seen = Append(@, CFG_CACHE')]
    /\ UNCHANGED <<cfg_installed, cfg_results, cfg_queries>>
    /\ CfgFrame

\* a caller blocked in get_or_init goes on once the cell is set
Resume(c) ==
    /\ cfg_callers[c].pc = "blocked"
    /\ cfg_once = "complete"
    /\ cfg_callers' = [cfg_callers EXCEPT
                          ![c].pc = "idle",
                          ![c].seen = Append(@, CFG_CACHE)]
    /\ UNCHANGED <<cfg_installed, cfg_once, cfg_results, cfg_queries, CFG_CACHE>>
    /\ CfgFrame

NextCfg ==
    \/ \E c \in Callers : CfgCache(c)
    \/ \E c \in Callers, triple \in SupportedTriples : QueryTriple(c, triple)
    \/ \E c \in Callers : Populate(c)
    \/ \E c \in Callers : Resume(c)

SpecCfg == InitCfg /\ [][NextCfg]_vars

\* C20: the cache is initialised at most once in a process: however many
\* callers use it first at the same time, the closure runs once, each
\* supported triple is queried at most once, and every lookup observes the
\* same contents, those the cache holds.
C20_InitialisedOnce ==
    /\ Cardinality({c \in Callers : cfg_callers[c].ran}) <= 1
    /\ \A triple \in SupportedTriples : cfg_queries[triple] <= 1
    /\ \A c \in Callers : \A i \in DOMAIN cfg_callers[c].seen :
          /\ cfg_once = "complete"
          /\ cfg_callers[c].seen[i] = CFG_CACHE

\* one caller ran the closure while another waited for it, and both have
\* looked the cache up since
C20_Witness ==
    \E c1, c2 \in Callers :
        /\ c1 # c2
        /\ cfg_callers[c1].ran
        /\ cfg_callers[c2].waited
        /\ Len(cfg_callers[c1].seen) = MaxLookups
        /\ Len(cfg_callers[c2].seen) = MaxLookups
        /\ \A triple \in SupportedTriples : cfg_queries[triple] = 1

(***************************************************************************)
(* SpecPlatform: oses_from_platform called from the main thread.  The      *)
(* first call fills the cfg cache; the thread of a triple returns cfgs or  *)
(* panics, and the closure joins every thread with expect.                 *)
(***************************************************************************)
MaxPanics == 1

\* Err of JoinHandle::join: the thread of the triple panicked
Panicked == [some |-> FALSE, cfgs |-> "panicked"]

\* a predicate over a cfg value rustc prints and the built-in table lacks
CfgSse2 ==
    Platform("cfg(target_feature = \"sse2\")",
             {"x86_64-pc-windows-msvc", "x86_64-pc-windows-gnu",
              "i686-pc-windows-msvc", "x86_64-unknown-linux-gnu",
              "i686-unknown-linux-gnu"}, FALSE)

\* Platform::Name
NameLinux ==
    Platform("x86_64-unknown-linux-gnu", {"x86_64-unknown-linux-gnu"}, TRUE)

ResolverPlatforms == {CfgUnix, CfgSse2, NameLinux}

\* Platform::matches(triple, cfgs): a name is compared with the triple, an
\* expression is evaluated over the cfgs, those of rustc or the built-in
\* ones
platform_matches(platform, triple, cfgs) ==
    /\ triple \in platform.matches
    /\ cfgs = "rustc" \/ platform # CfgSse2

\* oses_from_platform over the contents of the cache
oses_from_platform_cached(cfgs, platform) ==
    {SUPPORTED_TARGETS[i][1] :
        i \in {j \in DOMAIN SUPPORTED_TARGETS :
                  /\ SUPPORTED_TARGETS[j][2] \in DOMAIN cfgs
                  /\ platform_matches(platform, SUPPORTED_TARGETS[j][2],
                                      cfgs[SUPPORTED_TARGETS[j][2]])}}

\* the main thread
Main == 1

Lookup(platform, returned, oses) ==
    [platform |-> platform.repr, returned |-> returned, oses |-> oses]

\* oses_from_platform(platform) is called: with the cache filled it returns,
\* otherwise the closure of get_or_init starts
OsesFromPlatform(platform) ==
    /\ cfg_callers[Main].pc = "idle"
    /\ Len(cfg_callers[Main].seen) < MaxLookups
    /\ IF get_or_init(cfg_once) = "read"
       THEN /\ cfg_callers' = [cfg_callers EXCEPT ![Main].seen =
                   Append(@, Lookup(platform, TRUE,
                              oses_from_platform_cached(CFG_CACHE, platform)))]
            /\ UNCHANGED <<cfg_once, cfg_results>>
       ELSE /\ cfg_once' = "running"
            /\ cfg_results' = [cfg_results EXCEPT ![Main] = NoResults]
            /\ cfg_callers' = [cfg_callers EXCEPT
                   ![Main].pc = "initialising",
                   ![Main].ran = TRUE,
                   ![Main].seen = Append(@, Lookup(platform, FALSE, {}))]
    /\ UNCHANGED <<cfg_installed, cfg_queries, CFG_CACHE>>
    /\ CfgFrame

\* the thread of a triple panics
WorkerPanics(triple) ==
    /\ cfg_callers[Main].pc = "initialising"
    /\ triple \notin DOMAIN cfg_results[Main]
    /\ Cardinality({t \in DOMAIN cfg_results[Main] :
                       cfg_results[Main][t] = Panicked}) < MaxPanics
    /\ cfg_queries' = [cfg_queries EXCEPT ![triple] = @ + 1]
    /\ cfg_results' = [cfg_results EXCEPT ![Main] =
           [t \in DOMAIN @ \cup {triple} |->
               IF t = triple THEN Panicked ELSE @[t]]]
    /\ UNCHANGED <<cfg_installed, cfg_once, CFG_CACHE, cfg_callers>>
    /\ CfgFrame

\* every thread is joined.  expect on the Err of a panicked thread panics
\* in the closure: the cell stays empty and the panic unwinds the caller.
\* Otherwise the map is stored and oses_from_platform returns.
JoinAll ==
    /\ cfg_callers[Main].pc = "initialising"
    /\ DOMAIN cfg_results[Main] = SupportedTriples
    /\ LET n == Len(cfg_callers[Main].seen)
           platform == CHOOSE p \in ResolverPlatforms :
                          p.repr = cfg_callers[Main].seen[n].platform
       IN IF \E t \in SupportedTriples : cfg_results[Main][t] = Panicked
          THEN /\ cfg_once' = "incomplete"
               /\ CFG_CACHE' = CFG_CACHE
               /\ cfg_callers' = [cfg_callers EXCEPT ![Main].pc = "panicked"]
          ELSE /\ cfg_once' = "complete"
               /\ CFG_CACHE' = CfgMap(cfg_results[Main])
               /\ cfg_callers' = [cfg_callers EXCEPT
                      ![Main].pc = "idle",
                      ![Main].seen[n] =
                          Lookup(platform, TRUE,
                                 oses_from_platform_cached(CFG_CACHE', platform))]
    /\ UNCHANGED <<cfg_installed, cfg_results, cfg_queries>>
    /\ CfgFrame

NextPlatform ==
    \/ \E platform \in ResolverPlatforms : OsesFromPlatform(platform)
    \/ \E triple \in SupportedTriples : QueryTriple(Main, triple)
    \/ \E triple \in SupportedTriples : WorkerPanics(triple)
    \/ JoinAll

SpecPlatform == InitCfg /\ [][NextPlatform]_vars

\* C21: when the thread of one triple panics, the results of the other
\* threads are stored in the cache and only that triple is missing from it.
C21_OtherResultsCached ==
    cfg_callers[Main].pc = "panicked" =>
        \A t \in SupportedTriples :
            cfg_results[Main][t] # Panicked =>
                /\ t \in DOMAIN CFG_CACHE
                /\ CFG_CACHE[t] = cfg_results[Main][t].cfgs

\* the map with the triples whose query failed left out
Queried(cfgs, installed) ==
    [t \in DOMAIN cfgs \cap installed |-> cfgs[t]]

\* C22: a supported triple whose query fails is left out of the matching:
\* what oses_from_platform returns is what the triples rustc answered for
\* give, and a failed query ends no call.
C22_FailedTripleExcluded ==
    \A i \in DOMAIN cfg_callers[Main].seen :
        cfg_callers[Main].seen[i].returned =>
            \E platform \in ResolverPlatforms :
                /\ platform.repr = cfg_callers[Main].seen[i].platform
                /\ cfg_callers[Main].seen[i].oses =
                       oses_from_platform_cached(
                           Queried(CFG_CACHE, cfg_installed), platform)

(***************************************************************************)
(* SpecRegen: a node is regenerated, its edges change, it is regenerated   *)
(* again.  An edge to a first-party package without exactly one library    *)
(* target makes set_deps fail, and the emitter ends the process.           *)
(***************************************************************************)
RegenDeps ==
    {<<>>,
     <<NodeDep("serde", SerdeId1, <<DepKindInfo("Normal", NoTarget)>>)>>,
     <<NodeDep("my_util", UtilId, <<DepKindInfo("Normal", NoTarget)>>)>>,
     <<NodeDep("no_lib", NoLibId, <<DepKindInfo("Normal", NoTarget)>>)>>,
     <<NodeDep("two_lib", TwoLibId, <<DepKindInfo("Normal", NoTarget)>>)>>}

RegenNodes ==
    {GenNode("foo", FALSE, <<"foo">>, <<>>, <<>>, FALSE, TRUE, build, deps) :
        build \in {"", "build-script-build"}, deps \in RegenDeps}
    \cup {GenNode("mylib", TRUE, <<"mylib">>, bins, <<>>, FALSE, TRUE, "", deps) :
        bins \in {<<>>, <<"tool">>}, deps \in RegenDeps}

InitRegen ==
    /\ gen_node \in RegenNodes
    /\ gen_fields \in {{}, {"deps"}}
    /\ gen_no_merge = FALSE
    /\ gen_file = NoFile
    /\ gen_prev = NoFile
    /\ gen_rules = <<>>
    /\ gen_noop = <<>>
    /\ gen_pc = "start"
    /\ gen_added = {}
    /\ FpIdle
    /\ DiffIdle
    /\ CmdIdle
    /\ DepsIdle
    /\ PatchIdle
    /\ DagIdle
    /\ RenIdle
    /\ LabIdle
    /\ CfgIdle

\* the manifest of the package changes and the tool runs again on the node;
\* gen_prev keeps the file as it is before the attempt
NodeChanges ==
    /\ gen_pc = "written"
    /\ \E n \in RegenNodes :
          /\ n.name = gen_node.name
          /\ n # gen_node
          /\ gen_node' = n
    /\ gen_pc' = "start"
    /\ gen_rules' = <<>>
    /\ gen_prev' = gen_file
    /\ UNCHANGED <<gen_fields, gen_no_merge, gen_file, gen_noop, gen_added>>
    /\ GenFrame

NextRegen ==
    \/ BuckifyDepNode
    \/ BuckifyRootNode
    \/ Merge
    \/ Write
    \/ NodeChanges

SpecRegen == InitRegen /\ [][NextRegen]_vars

\* a file a write of the tool completed: File::create alone leaves it empty
Complete(file) == file.exists /\ file.ok /\ file.stmts # <<>>

\* whether the node has an edge to a first-party package without exactly
\* one library target
HasBadFirstPartyDep(node) ==
    \E i \in DOMAIN node.deps :
        /\ packages_map[node.deps[i].pkg].source = None
        /\ Len(packages_map[node.deps[i].pkg].lib_targets) # 1

\* C23: when the regeneration of a node ends because a first-party
\* dependency has no or several library targets, the BUCK file of the node
\* is as it was before the attempt: absent, or with its previous complete
\* content.
C23_AbortLeavesFile ==
    gen_pc = "exited" =>
        /\ HasBadFirstPartyDep(gen_node)
        /\ gen_file = gen_prev
        /\ ~gen_file.exists \/ Complete(gen_file)

\* the regeneration ended on a dependency with two library targets while
\* the node had a file from an earlier run
C23_Witness ==
    /\ gen_pc = "exited"
    /\ gen_file.exists
    /\ \E i \in DOMAIN gen_node.deps : gen_node.deps[i].pkg = TwoLibId

(***************************************************************************)
(* SpecDag: BuckalResolve::from_metadata.  The input is the nodes map of   *)
(* the resolved metadata: package ids with their dependency lists.  Cargo  *)
(* allows cycles through dev-dependencies (also a package that             *)
(* dev-depends on itself), so the input is any directed graph.  The nodes  *)
(* map is a HashMap: the order in which the packages are visited is not    *)
(* fixed, the order of one package's dependency list is.                   *)
(***************************************************************************)
MaxDagDeps == 2

DagIds == {"a", "b", "c"}

\* node.deps of one package: distinct package ids of the same metadata
DagDepLists(ids) ==
    {s \in UNION {[1..n -> ids] : n \in 0..MaxDagDeps} :
        \A i, j \in DOMAIN s : i # j => s[i] # s[j]}

DagInputs ==
    UNION {[ids -> DagDepLists(ids)] : ids \in SUBSET DagIds}

\* the edges the metadata lists between packages of the nodes map
InputEdges(input) ==
    {e \in (DOMAIN input) \X (DOMAIN input) :
        \E i \in DOMAIN input[e[1]] : input[e[1]][i] = e[2]}

\* the nodes reachable from the set S along the edges E (S included)
RECURSIVE Closure(_, _)
Closure(E, S) ==
    LET next == S \cup {e[2] : e \in {x \in E : x[1] \in S}}
    IN IF next = S THEN S ELSE Closure(E, next)

\* petgraph::algo::has_path_connecting: a node is connected to itself
has_path_connecting(E, from, to) == to \in Closure(E, {from})

\* an edge inserted whatever it closes
add_edge_unchecked(E, a, b) == E \cup {<<a, b>>}

\* daggy::Dag::add_edge: Err(WouldCycle) leaves the graph as it is
add_edge(E, a, b) ==
    IF has_path_connecting(E, b, a) THEN E ELSE E \cup {<<a, b>>}

\* the inner loop of "Create edges": one package's dependencies in list
\* order; a dependency that has no node is skipped, a rejected edge ignored
RECURSIVE add_edges_of(_, _, _, _, _)
add_edges_of(E, nodes, parent, deps, i) ==
    IF i > Len(deps) THEN E
    ELSE add_edges_of(IF deps[i] \in nodes THEN add_edge(E, parent, deps[i])
                      ELSE E,
                      nodes, parent, deps, i + 1)

InitDag ==
    /\ FpIdle
    /\ DiffIdle
    /\ CmdIdle
    /\ DepsIdle
    /\ GenIdle
    /\ PatchIdle
    /\ CfgIdle
    /\ RenIdle
    /\ LabIdle
    /\ dag_input \in DagInputs
    /\ dag_nodes = {}
    /\ dag_edges = {}
    /\ dag_done = {}
    /\ dag_pc = "start"

DagFrame == UNCHANGED <<fpVars, diffVars, cmdVars, depVars, genVars, patchVars, cfgVars, renVars, labVars>>

\* "Create nodes": one node per entry of the nodes map
CreateNodes ==
    /\ dag_pc = "start"
    /\ dag_nodes' = DOMAIN dag_input
    /\ dag_pc' = IF DOMAIN dag_input = {} THEN "done" ELSE "edges"
    /\ UNCHANGED <<dag_input, dag_edges, dag_done>>
    /\ DagFrame

\* "Create edges": the next package the map iteration yields
CreateEdges(pkg_id) ==
    /\ dag_pc = "edges"
    /\ pkg_id \in dag_nodes \ dag_done
    /\ dag_edges' = add_edges_of(dag_edges, dag_nodes, pkg_id, dag_input[pkg_id], 1)
    /\ dag_done' = dag_done \cup {pkg_id}
    /\ dag_pc' = IF dag_done' = dag_nodes THEN "done" ELSE "edges"
    /\ UNCHANGED <<dag_input, dag_nodes>>
    /\ DagFrame

NextDag ==
    \/ CreateNodes
    \/ \E pkg_id \in DagIds : CreateEdges(pkg_id)

SpecDag == InitDag /\ [][NextDag]_vars

Acyclic(E) == \A e \in E : ~has_path_connecting(E, e[2], e[1])

\* C24: graph construction always completes with an acyclic graph that has
\* every node of the input; every edge of the result is an edge of the input,
\* and an input edge is left out only if inserting it would close a cycle
\* (its child already reaches its parent).
C24_AcyclicKeepsTheRest ==
    /\ dag_pc \in {"edges", "done"} =>
        /\ dag_nodes = DOMAIN dag_input
        /\ Acyclic(dag_edges)
        /\ dag_edges \subseteq InputEdges(dag_input)
    /\ dag_pc = "done" =>
        \A e \in InputEdges(dag_input) \ dag_edges :
            has_path_connecting(dag_edges, e[2], e[1])

\* a construction that finished on a cyclic input: an edge was left out and
\* another edge of the same cycle was kept
C24_Witness ==
    /\ dag_pc = "done"
    /\ \E e \in InputEdges(dag_input) \ dag_edges : e[1] # e[2]
    /\ dag_edges # {}

(***************************************************************************)
(* SpecRender: gen_buck_content on any rule list.  The list is a Vec<Rule> *)
(* filled by pushes; a rule of each kind stands for the rules of the kind. *)
(***************************************************************************)
MaxRules == 3

RuleKinds ==
    {"http_archive", "filegroup", "cargo_manifest", "rust_library",
     "rust_binary", "rust_test", "buildscript_run"}

WrapperKinds == {"rust_library", "rust_binary", "rust_test", "buildscript_run"}

SampleRule(kind) ==
    [RuleDefault(kind) EXCEPT
        !.name = "foo-" \o kind,
        !.buildscript_rule = IF kind = "buildscript_run" THEN ":foo-build" ELSE "",
        !.visibility = IF kind \in WrapperKinds THEN {"PUBLIC"} ELSE {}]

Rendering(rules, text) == [rules |-> rules, text |-> text]

InitRender ==
    /\ FpIdle
    /\ DiffIdle
    /\ CmdIdle
    /\ DepsIdle
    /\ GenIdle
    /\ PatchIdle
    /\ CfgIdle
    /\ DagIdle
    /\ LabIdle
    /\ ren_rules = <<>>
    /\ ren_deps = <<>>
    /\ ren_env = <<>>
    /\ ren_out = <<>>

RenFrame == UNCHANGED <<fpVars, diffVars, cmdVars, depVars, genVars, patchVars, cfgVars, dagVars, labVars>>

\* buck_rules.push(rule)
PushRule(kind) ==
    /\ Len(ren_rules) < MaxRules
    /\ ren_rules' = Append(ren_rules, SampleRule(kind))
    /\ ren_out' = <<>>
    /\ UNCHANGED <<ren_deps, ren_env>>
    /\ RenFrame

\* gen_buck_content(&buck_rules)
Render ==
    /\ ren_out = <<>>
    /\ ren_out' = <<Rendering(ren_rules, gen_buck_text(ren_rules))>>
    /\ UNCHANGED <<ren_rules, ren_deps, ren_env>>
    /\ RenFrame

NextRender ==
    \/ \E kind \in RuleKinds : PushRule(kind)
    \/ Render

SpecRender == InitRender /\ [][NextRender]_vars

IsLoad(chunk) == IsStatement(chunk) /\ chunk.func = "load"

IsLoadOf(chunk, bzl) == IsLoad(chunk) /\ chunk.args[1].value = Str(bzl)

\* the names a load statement imports
LoadItems(chunk) == {chunk.args[i].value.v : i \in 2..Len(chunk.args)}

KindSet(rules) == {rules[i].kind : i \in DOMAIN rules}

\* the layout of one rendered text against the rule list it was rendered from
Layout(rules, text) ==
    LET loads == SelectSeq(text, IsLoad)
        manifest == SelectSeq(text, LAMBDA c : IsLoadOf(c, "@buckal//:cargo_manifest.bzl"))
        wrapper == SelectSeq(text, LAMBDA c : IsLoadOf(c, "@buckal//:wrapper.bzl"))
    IN /\ text[1] = Banner
       /\ loads = manifest \o wrapper
       /\ Len(manifest) = IF "cargo_manifest" \in KindSet(rules) THEN 1 ELSE 0
       /\ Len(wrapper) = IF KindSet(rules) \cap WrapperKinds # {} THEN 1 ELSE 0
       /\ \A i \in DOMAIN wrapper :
            /\ LoadItems(wrapper[i]) = KindSet(rules) \cap WrapperKinds
            /\ Len(wrapper[i].args) = 1 + Cardinality(KindSet(rules) \cap WrapperKinds)
       /\ \A i \in DOMAIN manifest : LoadItems(manifest[i]) = {"cargo_manifest"}
       /\ text = <<text[1]>> \o loads \o <<Line("")>>
                    \o [i \in DOMAIN rules |-> to_string(rules[i])]

\* C25: a rendered text is the banner, then the manifest load statement if
\* and only if the rule list has a manifest rule, then the wrapper load
\* statement naming exactly the wrapper rule kinds of the list (no wrapper
\* load statement when the list has none), then the rule blocks in the order
\* of the list.
C25_RenderLayout ==
    \A i \in DOMAIN ren_out : Layout(ren_out[i].rules, ren_out[i].text)

\* a rendered list of three rules without a manifest rule and with two of the
\* four wrapper kinds
C25_Witness ==
    /\ ren_out # <<>>
    /\ "cargo_manifest" \notin KindSet(ren_out[1].rules)
    /\ Cardinality(KindSet(ren_out[1].rules) \cap WrapperKinds) = 2
    /\ Len(ren_out[1].rules) = 3

(***************************************************************************)
(* SpecOrder: the collection fields of a rule are BTreeSet and BTreeMap    *)
(* values (buck.rs: `use std::collections::{BTreeMap as Map, BTreeSet as   *)
(* Set}`).  A tree is the ascending sequence of its members, which is the  *)
(* order its iterator and therefore the serializer visits them in.  Two    *)
(* copies of one rust_library rule have their deps and env filled by       *)
(* inserts in any order (log: the inserts that added a member, in order),  *)
(* then the rule list is rendered from either copy.                        *)
(***************************************************************************)
MaxRenders == 2

\* the strings inserted, in ascending (byte) order
DepMembers == <<"//a:a", "//b:b", "//c:c">>
EnvKeys == <<"CARGO_A", "CARGO_B">>

RankIn(universe, x) == CHOOSE i \in DOMAIN universe : universe[i] = x

Tree(members, inserted) == [tree |-> members, log |-> inserted]

EmptyTree == Tree(<<>>, <<>>)

\* a member added at the end, whatever its rank
insert_last(universe, t, x) ==
    IF x \in Range(t.tree) THEN t
    ELSE Tree(Append(t.tree, x), Append(t.log, x))

\* BTreeSet::insert, BTreeMap::insert of a new key: the member goes to its
\* place in the order; a member that is present is not added again
insert(universe, t, x) ==
    IF x \in Range(t.tree) THEN t
    ELSE LET below == SelectSeq(t.tree, LAMBDA y : RankIn(universe, y) < RankIn(universe, x))
             above == SelectSeq(t.tree, LAMBDA y : RankIn(universe, y) > RankIn(universe, x))
         IN Tree(below \o <<x>> \o above, Append(t.log, x))

EnvValue(k) == "$(location :" \o k \o ")"

\* the rule list of one copy, its collections as the serializer's input
OrderRules(side) ==
    ren_rules \o
    <<[SampleRule("rust_library") EXCEPT
          !.deps = Range(ren_deps[side].tree),
          !.env = [k \in Range(ren_env[side].tree) |-> EnvValue(k)]]>>

\* the rendered text: its lines and statements, and the order in which the
\* items of the deps list and the entries of the env dict are written
OrderText(side) ==
    [layout |-> gen_buck_text(OrderRules(side)),
     deps |-> ren_deps[side].tree,
     env |-> [i \in DOMAIN ren_env[side].tree |->
                <<ren_env[side].tree[i], EnvValue(ren_env[side].tree[i])>>]]

InitOrder ==
    /\ FpIdle
    /\ DiffIdle
    /\ CmdIdle
    /\ DepsIdle
    /\ GenIdle
    /\ PatchIdle
    /\ CfgIdle
    /\ DagIdle
    /\ LabIdle
    /\ ren_rules = <<SampleRule("cargo_manifest")>>
    /\ ren_deps = <<EmptyTree, EmptyTree>>
    /\ ren_env = <<EmptyTree, EmptyTree>>
    /\ ren_out = <<>>

\* rust_rule.deps_mut().insert(..)
InsertDep(side, x) ==
    /\ ren_out = <<>>
    /\ ren_deps' = [ren_deps EXCEPT ![side] = insert(DepMembers, @, x)]
    /\ ren_deps' # ren_deps
    /\ UNCHANGED <<ren_rules, ren_env, ren_out>>
    /\ RenFrame

\* rust_rule.env_mut().insert(..)
InsertEnv(side, k) ==
    /\ ren_out = <<>>
    /\ ren_env' = [ren_env EXCEPT ![side] = insert(EnvKeys, @, k)]
    /\ ren_env' # ren_env
    /\ UNCHANGED <<ren_rules, ren_deps, ren_out>>
    /\ RenFrame

\* gen_buck_content on the rule list of one copy
RenderCopy(side) ==
    /\ Len(ren_out) < MaxRenders
    /\ ren_out' = Append(ren_out,
                         [side |-> side,
                          rules |-> OrderRules(side),
                          text |-> OrderText(side)])
    /\ UNCHANGED <<ren_rules, ren_deps, ren_env>>
    /\ RenFrame

NextOrder ==
    \/ \E side \in 1..2, x \in Range(DepMembers) : InsertDep(side, x)
    \/ \E side \in 1..2, k \in Range(EnvKeys) : InsertEnv(side, k)
    \/ \E side \in 1..2 : RenderCopy(side)

SpecOrder == InitOrder /\ [][NextOrder]_vars

\* C26: two renderings of the same rule set are the same text, whether the
\* same value was rendered twice or two values with the same members were
\* filled in different insertion orders.
C26_RenderDeterministic ==
    \A i, j \in DOMAIN ren_out :
        ren_out[i].rules = ren_out[j].rules => ren_out[i].text = ren_out[j].text

\* both copies rendered with the same members, three deps and two env
\* entries, inserted in different orders
C26_Witness ==
    /\ Len(ren_out) >= 2
    /\ ren_out[1].side # ren_out[2].side
    /\ ren_out[1].rules = ren_out[2].rules
    /\ Len(ren_deps[1].tree) = 3
    /\ Len(ren_env[1].tree) = 2
    /\ ren_deps[1].log # ren_deps[2].log
    /\ ren_env[1].log # ren_env[2].log

(***************************************************************************)
(* Spec: the snapshot against the BUCK files                               *)
(***************************************************************************)
\* the snapshot file is written only by a run that has applied every entry
\* of its change set, or by the patch command when it has regenerated
SnapshotOnlyAfterApply ==
    [][(snapFile' # snapFile /\ snapFile'.present) =>
        \/ pc = "apply" /\ idx > Len(changes)
        \/ cmd = "idle" /\ unfinished' = {} /\ cargo' # cargo]_vars

\* a node the last aborted run left behind whose BUCK file is still not the
\* one of the node as the graph has it now
StillStale(id) ==
    /\ id \in unfinished
    /\ id \in DOMAIN ctx
    /\ buck[Dir(id)] # fingerprint(ctx[id])

\* C27: when a run was aborted part-way, the change set of the next run has
\* an entry for every node the aborted run left without bringing its BUCK
\* file up to date.
C27_NextRunResumes ==
    (cmd \in {"migrate", "add"} /\ pc = "apply" /\ idx = 1) =>
        \A id \in PkgIds : StillStale(id) => EntriesOf(changes, id) # {}

\* C28: whenever a command writes the snapshot, the BUCK file of every
\* third-party node recorded in it is the one generated from the node with
\* the recorded fingerprint.
C28_SnapshotMatchesFiles ==
    [][(snapFile' # snapFile /\ snapFile'.present) =>
        \A id \in DOMAIN snapFile'.fingerprints :
            ~IsFirstParty(id) => buck'[Dir(id)] = snapFile'.fingerprints[id]]_vars

(***************************************************************************)
(* SpecLabel: the labels set_deps attaches against the rules that are      *)
(* generated.  One library rule of a workspace member (the root package or *)
(* another member) is filled from the member's node.deps; before that,     *)
(* flush_root writes the alias file third-party/rust/BUCK when             *)
(* inherit_workspace_deps is set.  The packages of one workspace are       *)
(* reported on one host.                                                   *)
(***************************************************************************)
MaxLabelDeps == 2

\* the edges a member's node.deps is made of: normal edges, unconditional
\* or under cfg(unix), under the normalised package name or under a rename
LabelEdges ==
    {NodeDep(e[1], e[2], <<DepKindInfo("Normal", t)>>) :
        e \in {<<"rand", RandId08>>, <<"rand", RandId09>>,
               <<"rand_next", RandId09>>, <<"serde", SerdeId1>>,
               <<"my_util", UtilId>>, <<"my_core", CoreId>>,
               <<"win_util", WinUtilId>>},
        t \in {NoTarget, CfgUnix}}

\* the host a first-party package id was reported on ("" for a registry id)
HostOf(id) ==
    CASE id = WinUtilId -> "windows"
      [] packages_map[id].source = None -> "unix"
      [] OTHER -> ""

\* node.deps: one edge per dependency package and per name, all of one host
LabelDepLists ==
    {s \in UNION {[1..n -> LabelEdges] : n \in 0..MaxLabelDeps} :
        /\ \A i, j \in DOMAIN s :
              i # j => s[i].pkg # s[j].pkg /\ s[i].name # s[j].name
        /\ \A i, j \in DOMAIN s :
              HostOf(s[i].pkg) = "" \/ HostOf(s[j].pkg) = ""
                  \/ HostOf(s[i].pkg) = HostOf(s[j].pkg)}

\* semver::Version::cmp on the versions of packages_map, ascending
VersionOrder == <<"0.1.0", "0.8.5", "0.9.0", "1.0.0", "1.1.0">>

\* the keys of the BTreeMap `grouped`, ascending
NameOrder == <<"rand", "serde">>

Alias(name, actual) ==
    [kind |-> "alias", name |-> name, actual |-> actual, visibility |-> {"PUBLIC"}]

\* generate_third_party_aliases: member_deps are the dependency package ids
\* of the nodes of all workspace members.  The third-party ones are grouped
\* by package name; each group gives one alias rule to its highest version.
generate_third_party_aliases(member_deps) ==
    LET third == {id \in member_deps : packages_map[id].source # None}
        grouped(name) == {id \in third : packages_map[id].name = name}
        latest(name) ==
            CHOOSE id \in grouped(name) :
                \A o \in grouped(name) :
                    RankIn(VersionOrder, packages_map[o].version)
                        <= RankIn(VersionOrder, packages_map[id].version)
        names == SelectSeq(NameOrder, LAMBDA name : grouped(name) # {})
    IN [i \in DOMAIN names |->
          Alias(names[i],
                "//" \o RUST_CRATES_ROOT \o "/" \o names[i] \o "/"
                    \o packages_map[latest(names[i])].version \o ":" \o names[i])]

\* the dependency package ids of the nodes of the workspace members
MemberDeps == {lab_deps[i].pkg : i \in DOMAIN lab_deps} \cup lab_others

InitLabel ==
    /\ FpIdle
    /\ DiffIdle
    /\ CmdIdle
    /\ DepsIdle
    /\ GenIdle
    /\ PatchIdle
    /\ CfgIdle
    /\ DagIdle
    /\ RenIdle
    /\ lab_inherit \in BOOLEAN
    /\ lab_is_root \in BOOLEAN
    /\ lab_deps \in LabelDepLists
    /\ lab_others \in SUBSET {RandId08, RandId09}
    /\ lab_aliases = <<>>
    /\ lab_rule = EmptyRule
    /\ lab_idx = 1
    /\ lab_pc = "flush"

LabFrame == UNCHANGED <<fpVars, diffVars, cmdVars, depVars, genVars, patchVars, cfgVars, dagVars, renVars>>

\* flush_root: the alias file is written when inherit_workspace_deps is set
FlushRootAliases ==
    /\ lab_pc = "flush"
    /\ lab_aliases' = IF lab_inherit
                      THEN generate_third_party_aliases(MemberDeps)
                      ELSE lab_aliases
    /\ lab_pc' = "deps"
    /\ UNCHANGED <<lab_inherit, lab_is_root, lab_deps, lab_others, lab_rule, lab_idx>>
    /\ LabFrame

\* one round of the loop of set_deps on the next edge of node.deps;
\* use_workspace_alias = inherit_workspace_deps && node.id == ctx.root.id
LabelSetDepsStep ==
    /\ lab_pc = "deps"
    /\ lab_idx <= Len(lab_deps)
    /\ LET r == SetDepsRound(lab_rule, lab_deps[lab_idx], "Lib",
                             lab_inherit /\ lab_is_root)
       IN /\ lab_rule' = r.rule
          /\ lab_pc' = IF r.ok THEN "deps" ELSE "exit"
    /\ lab_idx' = lab_idx + 1
    /\ UNCHANGED <<lab_inherit, lab_is_root, lab_deps, lab_others, lab_aliases>>
    /\ LabFrame

\* node.deps is exhausted: set_deps returns Ok(())
LabelSetDepsReturns ==
    /\ lab_pc = "deps"
    /\ lab_idx > Len(lab_deps)
    /\ lab_pc' = "done"
    /\ UNCHANGED <<lab_inherit, lab_is_root, lab_deps, lab_others, lab_aliases,
                   lab_rule, lab_idx>>
    /\ LabFrame

NextLabel ==
    \/ FlushRootAliases
    \/ LabelSetDepsStep
    \/ LabelSetDepsReturns

SpecLabel == InitLabel /\ [][NextLabel]_vars

(***************************************************************************)
(* Properties of SpecLabel                                                 *)
(***************************************************************************)
MapValues(m) == {m[k] : k \in DOMAIN m}

\* every label in the four dependency attributes of a rule
RuleLabels(rule) ==
    rule.deps
    \cup MapValues(rule.named_deps)
    \cup UNION MapValues(rule.os_deps)
    \cup UNION {MapValues(rule.os_named_deps[a]) : a \in DOMAIN rule.os_named_deps}

\* The directory of the package's BUCK file as Buck2 names it in a label:
\* its components from the build root, separated by "/".  A first-party
\* package is written to its manifest directory, a third-party one to its
\* vendor directory (get_vendor_dir).
BuildFileDir(id) ==
    IF packages_map[id].source = None
    THEN JoinPath(ManifestDir(id), "/")
    ELSE RUST_CRATES_ROOT \o "/" \o packages_map[id].name
            \o "/" \o packages_map[id].version

\* the node of a package as the emitters read it
PackageNode(id) ==
    GenNode(packages_map[id].name, packages_map[id].source = None,
            packages_map[id].lib_targets, packages_map[id].bin_targets,
            <<>>, FALSE, TRUE, "", <<>>)

\* BuckalChange::apply: the rules emitted into the package's BUCK file
EmittedFor(id) ==
    IF packages_map[id].source = None
    THEN buckify_root_node(PackageNode(id))
    ELSE buckify_dep_node(PackageNode(id))

\* the labels of the Library rules generated for the package
LibraryLabels(id) ==
    {"//" \o BuildFileDir(id) \o ":" \o r.name :
        r \in {x \in Range(EmittedFor(id).rules) : x.kind = "rust_library"}}

\* the edges set_deps has been through
Visited == {lab_deps[i] : i \in 1..(lab_idx - 1)}

IsAliasLabel(label) ==
    \E i \in DOMAIN NameOrder : label = "//third-party/rust:" \o NameOrder[i]

\* relative_path in packages_map is the manifest directory as the host of
\* the package writes it
RelativePathsAsReported ==
    \A id \in DOMAIN packages_map :
        packages_map[id].source = None
            => packages_map[id].relative_path = to_string_lossy(id)

\* C29 (as stated, for the labels that are not workspace alias labels):
\* every dependency label attached to the rule is the label of a Library
\* rule that is generated for a dependency's package, in the directory of
\* that package's BUCK file and under the name the rule gets there.
C29_Original ==
    \A label \in RuleLabels(lab_rule) :
        IsAliasLabel(label)
            \/ \E dep \in Visited : label \in LibraryLabels(dep.pkg)

\* C29 holds for the packages of a host whose separator is "/"
LabelsOnUnix ==
    (\A dep \in Visited : HostOf(dep.pkg) # "windows") => C29_Original

\* the alias label of the edge is attached to the rule
AliasAttached(dep) ==
    /\ packages_map[dep.pkg].source # None
    /\ ("//third-party/rust:" \o packages_map[dep.pkg].name) \in RuleLabels(lab_rule)

\* C30 (as stated): in workspace-alias mode every alias label attached to a
\* root rule has an alias rule in the alias file, and the alias points to
\* the Library rule of the package version the root's edge resolves to.
C30_Original ==
    (lab_inherit /\ lab_is_root) =>
        \A dep \in Visited :
            AliasAttached(dep) =>
                \E i \in DOMAIN lab_aliases :
                    /\ lab_aliases[i].name = packages_map[dep.pkg].name
                    /\ lab_aliases[i].actual \in LibraryLabels(dep.pkg)

\* every alias label attached to a root rule has an alias rule of its name
AliasRuleExists ==
    (lab_inherit /\ lab_is_root) =>
        \A dep \in Visited :
            AliasAttached(dep) =>
                \E i \in DOMAIN lab_aliases :
                    lab_aliases[i].name = packages_map[dep.pkg].name

\* with one version of each package among the members' dependencies the
\* alias points to the version of the root's edge
AliasOfSingleVersion ==
    (\A a, b \in MemberDeps :
        packages_map[a].name = packages_map[b].name => a = b) => C30_Original

====
